---- MODULE Spec2Model ----
\* Verification model of discord-economy-super:
\*   - Economy (src/unnamed/part_001): the synchronous, JSON-file backed ledger,
\*     cooldown gate and shop;
\*   - RewardManager (src/mongodb/src/managers/RewardManager.js): the asynchronous
\*     reward claims of the MongoDB flavour.
EXTENDS Integers, Sequences, FiniteSets, TLC

VARIABLES
    file,      \* the persisted document (storage.json, or the database of the MongoDB flavour)
    options,   \* this.options after initialisation
    backend,   \* "json": Economy, "mongo": RewardManager
    ready,     \* this.ready of the instance called, and module.exports.ready
    now,       \* Date.now()
    last,      \* the public operation that returned last (arguments, result, events)
    pre,       \* the document as it was when that operation was called
    last2,     \* the operation that returned before it
    pre2,      \* the document as it was when last2 was called
    nops,      \* number of operations issued so far
    calls,     \* RewardManager: the asynchronous claim calls in flight
    tasks,     \* RewardManager: operations started without being awaited
    grants,    \* history: time of the latest successful claim per member and kind
    boot,      \* the start-up of Economy: the storage file, the retry loop, the watcher
    peer       \* a second Economy of the same process: its document, and who was called

vars == <<file, options, backend, ready, now, last, pre, last2, pre2, nops, calls, tasks, grants,
          boot, peer>>

----------------------------------------------------------------------------
\* Bounds and input sets

MaxOps == 2
MaxTime == 3
RandDen == 2

Guilds == {"g1", "g2"}
Members == {"m1", "m2"}

\* The key of a guild record that holds its catalog: a member identifier is any
\* string, this one included
ShopKey == "shop"

\* The number 42 passed where an identifier is expected: as a key it reads "42"
NumberKey == "42"
Keys == Members \cup {ShopKey, NumberKey}

\* typeof id === 'string'
IsString(id) == id # NumberKey
LedgerMembers == {"m1", ShopKey}
Kinds == {"daily", "work", "weekly"}
ClaimGuild == "g1"
CallIds == {1, 2}
Callers == {"m1"}

----------------------------------------------------------------------------
\* JavaScript values: a finite number n is <<n>>, null is <<>>, NaN, undefined and
\* the two infinities are separate values. JSON.stringify writes NaN and the
\* infinities as null.

Null == <<>>
Num(n) == <<n>>
NaN == <<0, 0>>
Undefined == <<0, 0, 0>>
PosInfinity == <<1, 0, 0, 0>>
NegInfinity == <<-1, 0, 0, 0>>

\* Amounts the host passes to the balance operations
Amounts == {Num(0 - 1), Num(2), PosInfinity}

IsNum(v) == Len(v) = 1
IsInf(v) == Len(v) = 4

\* x || 0
OrZero(v) == IF (IsNum(v) /\ v[1] # 0) \/ IsInf(v) THEN v ELSE Num(0)

\* x || null
OrNull(v) == IF (IsNum(v) /\ v[1] # 0) \/ IsInf(v) THEN v ELSE Null

\* Number(x)
Number(v) == IF IsNum(v) \/ IsInf(v) THEN v ELSE IF v = Null THEN Num(0) ELSE NaN

\* isNaN(x)
IsNaN(v) == Number(v) = NaN

\* a + b and a - b of two numbers
JSAdd(a, b) ==
    IF IsNum(a) /\ IsNum(b) THEN Num(a[1] + b[1])
    ELSE IF IsInf(a) /\ (IsNum(b) \/ a = b) THEN a
    ELSE IF IsNum(a) /\ IsInf(b) THEN b
    ELSE NaN

JSNeg(b) ==
    IF IsNum(b) THEN Num(0 - b[1])
    ELSE IF IsInf(b) THEN <<0 - b[1], 0, 0, 0>>
    ELSE NaN

JSSub(a, b) == JSAdd(a, JSNeg(b))

\* JSON.parse(JSON.stringify(x)) of a field value
Stringify(v) == IF IsNum(v) THEN v ELSE Null

----------------------------------------------------------------------------
\* The document: guildID -> { memberID -> member record, shop: [...], settings }

NoMember ==
    [present |-> FALSE, dailyCooldown |-> Null, workCooldown |-> Null,
     weeklyCooldown |-> Null, money |-> Null, bank |-> Null,
     inventory |-> <<>>, history |-> <<>>]

\* A reward specification is a number or an array of numbers; an option that is
\* left out is Unset.
Fixed(n) == [array |-> FALSE, v |-> <<n>>]
Range(a, b) == [array |-> TRUE, v |-> <<a, b>>]
Unset == [array |-> FALSE, v |-> <<>>]

NoSettings == [dailyCooldown |-> Null, workCooldown |-> Null, weeklyCooldown |-> Null,
               dailyAmount |-> Unset, workAmount |-> Unset, weeklyAmount |-> Unset]

NoGuild == [present |-> FALSE, shop |-> <<>>, settings |-> NoSettings,
            members |-> [m \in Keys |-> NoMember]]

EmptyDoc == [g \in Guilds |-> NoGuild]

\* obj[guildID]?.[memberID]
Member(doc, g, m) == doc[g].members[m]

\* obj[guildID]?.[memberID]?.<field>: undefined when the record is absent
Field(doc, g, m, f) ==
    IF Member(doc, g, m).present THEN Member(doc, g, m)[f] ELSE Undefined

CooldownField(k) ==
    CASE k = "daily" -> "dailyCooldown"
      [] k = "work" -> "workCooldown"
      [] k = "weekly" -> "weeklyCooldown"

\* if (!obj[guildID]) obj[guildID] = {}; obj[guildID][memberID] = rec; writeFileSync(...)
\* A record written under the key "shop" takes the place of the catalog.
WriteMember(doc, g, m, rec) ==
    [doc EXCEPT ![g] = [@ EXCEPT !.present = TRUE,
                                 !.shop = IF m = ShopKey THEN <<>> ELSE @,
                                 !.members = [@ EXCEPT ![m] =
        [present |-> TRUE,
         dailyCooldown |-> Stringify(rec.dailyCooldown),
         workCooldown |-> Stringify(rec.workCooldown),
         weeklyCooldown |-> Stringify(rec.weeklyCooldown),
         money |-> Stringify(rec.money),
         bank |-> Stringify(rec.bank),
         inventory |-> rec.inventory,
         history |-> rec.history]]]]

----------------------------------------------------------------------------
\* Economy: reads

\* fetch without the || 0 that stands in for a missing balance
fetch_NoDefault(doc, m, g) == Number(Field(doc, g, m, "money"))

\* Number(this.all()[guildID]?.[memberID]?.money || 0)
fetch(doc, m, g) == Number(OrZero(Field(doc, g, m, "money")))
bankFetch(doc, m, g) == Number(OrZero(Field(doc, g, m, "bank")))
getDailyCooldown(doc, m, g) == OrNull(Field(doc, g, m, "dailyCooldown"))
getWorkCooldown(doc, m, g) == OrNull(Field(doc, g, m, "workCooldown"))
getWeeklyCooldown(doc, m, g) == OrNull(Field(doc, g, m, "weeklyCooldown"))
inventory(doc, m, g) == Member(doc, g, m).inventory
history(doc, m, g) == Member(doc, g, m).history

\* The member record that every balance operation rebuilds from fresh reads
Rebuilt(doc, m, g) ==
    [dailyCooldown |-> getDailyCooldown(doc, m, g),
     workCooldown |-> getWorkCooldown(doc, m, g),
     weeklyCooldown |-> getWeeklyCooldown(doc, m, g),
     money |-> fetch(doc, m, g),
     bank |-> bankFetch(doc, m, g),
     inventory |-> inventory(doc, m, g),
     history |-> history(doc, m, g)]

\* Results: what the operation returned and the events it emitted
\* written: the writeFileSync of the operation had returned when the event was emitted
Event(type, amount, balance) ==
    [type |-> type, amount |-> amount, balance |-> balance, written |-> TRUE]
Result(doc, tag, n, events) == [doc |-> doc, ret |-> [tag |-> tag, n |-> n], events |-> events]

----------------------------------------------------------------------------
\* Economy: balance operations

\* set with the amount added to the stored balance instead of replacing it
set_Accumulates(doc, amount, m, g) ==
    IF IsNaN(amount) \/ ~IsString(m) THEN Result(doc, "throw", 0, <<>>) ELSE
    Result(WriteMember(doc, g, m, [Rebuilt(doc, m, g) EXCEPT
                                      !.money = JSAdd(fetch(doc, m, g), Number(amount))]),
           "number", Number(amount),
           <<Event("balanceSet", Number(amount), Number(amount))>>)

set(doc, amount, m, g) ==
    IF IsNaN(amount) \/ ~IsString(m) THEN Result(doc, "throw", 0, <<>>) ELSE
    Result(WriteMember(doc, g, m, [Rebuilt(doc, m, g) EXCEPT !.money = Number(amount)]),
           "number", Number(amount),
           <<Event("balanceSet", Number(amount), Number(amount))>>)

add(doc, amount, m, g) ==
    LET money == OrZero(Field(doc, g, m, "money"))
        bal == JSAdd(Number(money), Number(amount))
    IN IF IsNaN(amount) \/ ~IsString(m) THEN Result(doc, "throw", 0, <<>>) ELSE
       Result(WriteMember(doc, g, m, [Rebuilt(doc, m, g) EXCEPT !.money = bal]),
              "number", Number(amount),
              <<Event("balanceAdd", Number(amount), bal)>>)

\* subtract with the operands of the subtraction swapped
subtract_Swapped(doc, amount, m, g) ==
    LET money == OrZero(Field(doc, g, m, "money"))
        bal == JSSub(Number(amount), Number(money))
    IN IF IsNaN(amount) \/ ~IsString(m) THEN Result(doc, "throw", 0, <<>>) ELSE
       Result(WriteMember(doc, g, m, [Rebuilt(doc, m, g) EXCEPT !.money = bal]),
              "number", Number(amount),
              <<Event("balanceSubtract", Number(amount), bal)>>)

subtract(doc, amount, m, g) ==
    LET money == OrZero(Field(doc, g, m, "money"))
        bal == JSSub(Number(money), Number(amount))
    IN IF IsNaN(amount) \/ ~IsString(m) THEN Result(doc, "throw", 0, <<>>) ELSE
       Result(WriteMember(doc, g, m, [Rebuilt(doc, m, g) EXCEPT !.money = bal]),
              "number", Number(amount),
              <<Event("balanceSubtract", Number(amount), bal)>>)

bankSet(doc, amount, m, g) ==
    IF IsNaN(amount) \/ ~IsString(m) THEN Result(doc, "throw", 0, <<>>) ELSE
    Result(WriteMember(doc, g, m, [Rebuilt(doc, m, g) EXCEPT !.bank = Number(amount)]),
           "number", Number(amount),
           <<Event("bankSet", Number(amount), Number(amount))>>)

bankAdd(doc, amount, m, g) ==
    LET money == OrZero(Field(doc, g, m, "bank"))
        bal == JSAdd(Number(money), Number(amount))
    IN IF IsNaN(amount) \/ ~IsString(m) THEN Result(doc, "throw", 0, <<>>) ELSE
       Result(WriteMember(doc, g, m, [Rebuilt(doc, m, g) EXCEPT !.bank = bal]),
              "number", Number(amount),
              <<Event("bankAdd", Number(amount), bal)>>)

bankSubtract(doc, amount, m, g) ==
    LET money == OrZero(Field(doc, g, m, "bank"))
        bal == JSSub(Number(money), Number(amount))
    IN IF IsNaN(amount) \/ ~IsString(m) THEN Result(doc, "throw", 0, <<>>) ELSE
       Result(WriteMember(doc, g, m, [Rebuilt(doc, m, g) EXCEPT !.bank = bal]),
              "number", Number(amount),
              <<Event("bankSubtract", Number(amount), bal)>>)

----------------------------------------------------------------------------
\* Configuration

\* x == undefined || x == null
IsUnset(a) == ~a.array /\ a.v = <<>>

\* lines 843-848 of Economy.init: defaults of the amounts and cooldowns
InitDefaults(o) ==
    LET o1 == [o EXCEPT !.dailyAmount = IF IsUnset(o.dailyAmount) THEN Fixed(100) ELSE @]
        o2 == [o1 EXCEPT !.workAmount = IF IsUnset(o1.workAmount) THEN Range(10, 50) ELSE @]
        o3 == [o2 EXCEPT !.weeklyAmount = IF IsUnset(o2.weeklyAmount) THEN Fixed(1000) ELSE @]
        o4 == IF o3.dailyCooldown = Null
              THEN [o3 EXCEPT !.dailyCooldown = Num(60000 * 60 * 24)]
              ELSE [o3 EXCEPT !.workAmount = Fixed(o3.dailyCooldown[1])]
        o5 == [o4 EXCEPT !.workCooldown = IF @ = Null THEN Num(60000 * 60) ELSE @]
    IN [o5 EXCEPT !.weeklyCooldown = IF @ = Null THEN Num(60000 * 60 * 24 * 7) ELSE @]

\* lines 914-915 of Economy.init: a one-element workAmount becomes its element, a
\* descending pair is reversed
InitWorkAmount(o) ==
    LET w == o.workAmount
    IN IF w.array /\ Len(w.v) = 1 THEN [o EXCEPT !.workAmount = Fixed(w.v[1])]
       ELSE IF w.array /\ Len(w.v) = 2 /\ w.v[1] > w.v[2]
            THEN [o EXCEPT !.workAmount = Range(w.v[2], w.v[1])]
            ELSE o

InitOptions(o) == InitWorkAmount(InitDefaults(o))

\* Options as the host passes them to the constructor
HostUnset ==
    [dailyCooldown |-> Null, workCooldown |-> Null, weeklyCooldown |-> Null,
     dailyAmount |-> Unset, workAmount |-> Unset, weeklyAmount |-> Unset]

HostShort ==
    [dailyCooldown |-> Num(2), workCooldown |-> Num(1), weeklyCooldown |-> Num(3),
     dailyAmount |-> Fixed(5), workAmount |-> Range(1, 3), weeklyAmount |-> Fixed(7)]

HostWork ==
    [HostUnset EXCEPT !.workCooldown = Num(1), !.weeklyCooldown = Num(3),
                      !.workAmount = Range(3, 1)]

HostOptions == {HostUnset, HostShort, HostWork}

----------------------------------------------------------------------------
\* Arithmetic of the reward draw: Math.random() is k / RandDen for k in 0 .. RandDen-1

Draws == 0 .. (RandDen - 1)

\* Math.floor(x / d) and Math.ceil(x / d) for d > 0
FloorDiv(x, d) == x \div d
CeilDiv(x, d) == -((-x) \div d)

----------------------------------------------------------------------------
\* Economy: the cooldown gate (daily, work, weekly)

\* the cooldown test without its null test: a cooldown never stamped counts as time 0
Claim_NoNullTest(doc, kind, cooldown, reward, m, g, t) ==
    LET cd == Number(OrNull(Field(doc, g, m, CooldownField(kind))))
        left == cooldown[1] - (t - cd[1])
        stamped == WriteMember(doc, g, m,
                       [Rebuilt(doc, m, g) EXCEPT ![CooldownField(kind)] = Num(t)])
        credited == add(stamped, reward, m, g)
    IN IF ~IsString(m) THEN Result(doc, "throw", 0, <<>>)
       ELSE IF left > 0
       THEN Result(doc, "string", left, <<>>)
       ELSE IF credited.ret.tag = "throw" THEN Result(stamped, "throw", 0, <<>>)
       ELSE Result(credited.doc, "number", reward[1], credited.events)

\* the cooldown test with >= 0 in place of > 0
Claim_InclusiveBoundary(doc, kind, cooldown, reward, m, g, t) ==
    LET cd == OrNull(Field(doc, g, m, CooldownField(kind)))
        left == cooldown[1] - (t - cd[1])
        stamped == WriteMember(doc, g, m,
                       [Rebuilt(doc, m, g) EXCEPT ![CooldownField(kind)] = Num(t)])
        credited == add(stamped, reward, m, g)
    IN IF ~IsString(m) THEN Result(doc, "throw", 0, <<>>)
       ELSE IF cd # Null /\ left >= 0
       THEN Result(doc, "string", left, <<>>)
       ELSE IF credited.ret.tag = "throw" THEN Result(stamped, "throw", 0, <<>>)
       ELSE Result(credited.doc, "number", reward[1], credited.events)

\* The part the three claims share: the cooldown test, the stamp written to the
\* file, then this.add(reward, ...) on the file as stamped; an error of add leaves
\* the claim with the stamp written
Claim(doc, kind, cooldown, reward, m, g, t) ==
    LET cd == OrNull(Field(doc, g, m, CooldownField(kind)))
        left == cooldown[1] - (t - cd[1])
        stamped == WriteMember(doc, g, m,
                       [Rebuilt(doc, m, g) EXCEPT ![CooldownField(kind)] = Num(t)])
        credited == add(stamped, reward, m, g)
    IN IF ~IsString(m) THEN Result(doc, "throw", 0, <<>>)
       ELSE IF cd # Null /\ left > 0
       THEN Result(doc, "string", left, <<>>)
       ELSE IF credited.ret.tag = "throw" THEN Result(stamped, "throw", 0, <<>>)
       ELSE Result(credited.doc, "number", reward[1], credited.events)

\* Number(x) of a reward option: a number, [n] (which reads n) or a longer array
NumberOf(a) == IF a.array /\ Len(a.v) # 1 THEN NaN ELSE Num(a.v[1])

daily(doc, opts, m, g, t) ==
    Claim(doc, "daily", opts.dailyCooldown, NumberOf(opts.dailyAmount), m, g, t)

\* Math.ceil(Math.random() * (workAmount[0] - workAmount[1]) + workAmount[1])
WorkReward(workAmount, k) ==
    IF workAmount.array
    THEN CeilDiv(k * (workAmount.v[1] - workAmount.v[2]) + workAmount.v[2] * RandDen, RandDen)
    ELSE workAmount.v[1]

work(doc, opts, k, m, g, t) ==
    Claim(doc, "work", opts.workCooldown, Num(WorkReward(opts.workAmount, k)), m, g, t)

weekly(doc, opts, m, g, t) ==
    Claim(doc, "weekly", opts.weeklyCooldown, NumberOf(opts.weeklyAmount), m, g, t)

----------------------------------------------------------------------------
\* Economy.shop

\* An item identifier as the host passes it: a number n (id = n, and a name that
\* reads n) or a string that is no number (id = 0: it equals no id)
ById(n) == [id |-> n, name |-> ""]
ByName(s) == [id |-> 0, name |-> s]

\* x.id == itemID || x.itemName == itemID
Matches(x, itemID) == x.id = itemID.id \/ x.itemName = itemID.name

\* shop.find(...): the index of the first match, 0 when there is none
FindIndex(seq, itemID) ==
    IF \E i \in 1 .. Len(seq) : Matches(seq[i], itemID)
    THEN CHOOSE i \in 1 .. Len(seq) :
            /\ Matches(seq[i], itemID)
            /\ \A j \in 1 .. (i - 1) : ~Matches(seq[j], itemID)
    ELSE 0

\* obj[guildID]?.shop || []
ShopOf(doc, g) == doc[g].shop

\* obj[guildID].shop holds a member record (one written for the member id 'shop'): it
\* is truthy and has no find, findIndex, filter or push, so these calls are TypeErrors
ShopBroken(doc, g) == doc[g].members[ShopKey].present

ShopEvent(type) == [type |-> type, amount |-> 0, balance |-> Null, written |-> TRUE]

\* an event emitted before the writeFileSync of its operation (editItem, removeItem)
EarlyEvent(type) == [ShopEvent(type) EXCEPT !.written = FALSE]

\* shop.addItem(guildID, { itemName, price, maxAmount }): maxAmount is Null when the
\* host leaves it out, message and description take their defaults, role is left out
addItem(doc, g, itemName, price, maxAmount, t) ==
    LET shop == ShopOf(doc, g)
        id == IF Len(shop) # 0 THEN Len(shop) + 1 ELSE 1
        itemInfo == [id |-> id, itemName |-> itemName, price |-> price,
                     message |-> "You have used this item!",
                     description |-> "Very mysterious item.",
                     maxAmount |-> maxAmount, role |-> Null, date |-> t]
    IN IF ShopBroken(doc, g) THEN Result(doc, "throw", 0, <<>>)
       ELSE Result([doc EXCEPT ![g] = [@ EXCEPT !.present = TRUE,
                                                !.shop = Append(shop, itemInfo)]],
                   "item", id, <<ShopEvent("shopAddItem")>>)

\* filter(x => x.id !== item.id)
WithoutId(inv, id) == SelectSeq(inv, LAMBDA x : x.id # id)

\* shop.searchItem(itemID, guildID): <<item>> for the first match, <<>> for false
searchItem(doc, itemID, g) ==
    LET shop == ShopOf(doc, g)
        i == FindIndex(shop, itemID)
    IN IF i = 0 THEN <<>> ELSE <<shop[i]>>

\* shop.editItem(itemID, guildID, arg, value): value is <<v>>, or <<>> when the host
\* leaves it out; the event is emitted before the write
EditArgs == {"description", "price", "itemName", "message", "maxAmount", "role"}

\* editItem that edits every item that matches, not the first one only
editItem_EveryMatch(doc, itemID, g, arg, value) ==
    LET shop == ShopOf(doc, g)
        i == FindIndex(shop, itemID)
        edited == [j \in 1 .. Len(shop) |->
                     IF Matches(shop[j], itemID) THEN [shop[j] EXCEPT ![arg] = value[1]]
                     ELSE shop[j]]
    IN IF arg \notin EditArgs \/ value = <<>> \/ ShopBroken(doc, g)
       THEN Result(doc, "throw", 0, <<>>)
       ELSE IF i = 0 THEN Result(doc, "true", 0, <<>>)
       ELSE Result([doc EXCEPT ![g] = [@ EXCEPT !.shop = edited]], "true", 0,
                   <<EarlyEvent("shopEditItem")>>)

editItem(doc, itemID, g, arg, value) ==
    LET shop == ShopOf(doc, g)
        i == FindIndex(shop, itemID)
        edited == [shop EXCEPT ![i] = [@ EXCEPT ![arg] = value[1]]]
    IN IF arg \notin EditArgs \/ value = <<>> \/ ShopBroken(doc, g)
       THEN Result(doc, "throw", 0, <<>>)
       ELSE IF i = 0 THEN Result(doc, "true", 0, <<>>)
       ELSE Result([doc EXCEPT ![g] = [@ EXCEPT !.shop = edited]], "true", 0,
                   <<EarlyEvent("shopEditItem")>>)

\* shop.removeItem(itemID, guildID): every item with the id of the first match goes
removeItem(doc, itemID, g) ==
    LET shop == ShopOf(doc, g)
        i == FindIndex(shop, itemID)
    IN IF ShopBroken(doc, g) THEN Result(doc, "throw", 0, <<>>)
       ELSE IF i = 0 THEN Result(doc, "false", 0, <<>>)
       ELSE Result([doc EXCEPT ![g] = [@ EXCEPT !.shop = WithoutId(shop, shop[i].id)]],
                   "true", 0, <<EarlyEvent("shopRemoveItem")>>)

\* clear that emits no event when there is nothing to clear
clear_SilentWhenEmpty(doc, g) ==
    IF Len(ShopOf(doc, g)) = 0 THEN Result(doc, "false", 0, <<>>)
    ELSE Result([doc EXCEPT ![g] = [@ EXCEPT !.shop = <<>>]], "true", 0,
                <<ShopEvent("shopClear")>>)

\* shop.clear(guildID): a catalog without a length (none, an empty one, a member
\* record under the key) is reported as already clear
clear(doc, g) ==
    IF Len(ShopOf(doc, g)) = 0 THEN Result(doc, "false", 0, <<ShopEvent("shopClear")>>)
    ELSE Result([doc EXCEPT ![g] = [@ EXCEPT !.shop = <<>>]], "true", 0,
                <<ShopEvent("shopClear")>>)

\* item.maxAmount && inventory.filter(x => x.itemName == item.itemName).length >= item.maxAmount
MaxReached(item, inv) ==
    /\ OrNull(item.maxAmount) # Null
    /\ Cardinality({i \in 1 .. Len(inv) : inv[i].itemName = item.itemName}) >= item.maxAmount[1]

\* shop.buy(itemID, memberID, guildID)
buy(doc, itemID, m, g, t) ==
    LET data == Member(doc, g, m)
        shop == ShopOf(doc, g)
        i == FindIndex(shop, itemID)
        item == shop[i]
        bal == Field(doc, g, m, "money")
        inv == inventory(doc, m, g)
        itemData == [id |-> IF Len(inv) # 0 THEN Len(inv) + 1 ELSE 1,
                     itemName |-> item.itemName, price |-> item.price,
                     message |-> item.message, role |-> OrNull(item.role),
                     maxAmount |-> item.maxAmount, date |-> t]
        hist == data.history
        entry == [id |-> IF Len(hist) # 0 THEN Len(hist) + 1 ELSE 1,
                  memberID |-> m, guildID |-> g, itemName |-> item.itemName,
                  price |-> item.price, role |-> OrNull(item.role),
                  maxAmount |-> item.maxAmount, date |-> t]
        money == JSSub(Number(bal), Number(Num(item.price)))
        rec == [dailyCooldown |-> OrNull(Field(doc, g, m, "dailyCooldown")),
                workCooldown |-> OrNull(Field(doc, g, m, "workCooldown")),
                weeklyCooldown |-> OrNull(Field(doc, g, m, "weeklyCooldown")),
                money |-> money,
                bank |-> OrZero(Field(doc, g, m, "bank")),
                inventory |-> Append(inv, itemData),
                history |-> Append(hist, entry)]
    IN IF ~IsString(m) \/ ShopBroken(doc, g) THEN Result(doc, "throw", 0, <<>>)
       ELSE IF i = 0 THEN Result(doc, "false", 0, <<>>)
       ELSE IF MaxReached(item, inv) THEN Result(doc, "max", 0, <<>>)
       ELSE Result(WriteMember(doc, g, m, rec), "true", 0,
                   <<ShopEvent("shopItemBuy"), Event("balanceSubtract", item.price, money)>>)

\* the rebuilt record with the history left out
DataRecord_FreshHistory(doc, m, g) ==
    [dailyCooldown |-> OrNull(Field(doc, g, m, "dailyCooldown")),
     workCooldown |-> OrNull(Field(doc, g, m, "workCooldown")),
     weeklyCooldown |-> OrNull(Field(doc, g, m, "weeklyCooldown")),
     money |-> OrZero(Field(doc, g, m, "money")),
     bank |-> OrZero(Field(doc, g, m, "bank")),
     inventory |-> inventory(doc, m, g),
     history |-> <<>>]

\* The record that useItem, clearInventory and clearHistory rebuild from data
DataRecord(doc, m, g) ==
    [dailyCooldown |-> OrNull(Field(doc, g, m, "dailyCooldown")),
     workCooldown |-> OrNull(Field(doc, g, m, "workCooldown")),
     weeklyCooldown |-> OrNull(Field(doc, g, m, "weeklyCooldown")),
     money |-> OrZero(Field(doc, g, m, "money")),
     bank |-> OrZero(Field(doc, g, m, "bank")),
     inventory |-> inventory(doc, m, g),
     history |-> history(doc, m, g)]

\* what the host passes as client: nothing, a client that does not know the guild, one
\* whose guild has no such role, one whose role assignment is rejected, one that grants
Clients == {"none", "noGuild", "noRole", "rejects", "grants"}

\* useItem that rewrites the member record also when no entry matches
useItem_WritesOnMiss(doc, itemID, m, g, client) ==
    LET inv == inventory(doc, m, g)
        i == FindIndex(inv, itemID)
        kept == IF i = 0 THEN inv ELSE WithoutId(inv, inv[i].id)
    IN IF ~IsString(m) THEN Result(doc, "throw", 0, <<>>) ELSE
       Result(WriteMember(doc, g, m, [DataRecord(doc, m, g) EXCEPT !.inventory = kept]),
              IF i = 0 THEN "false" ELSE "message", IF i = 0 THEN 0 ELSE inv[i].message,
              IF i = 0 THEN <<>> ELSE <<ShopEvent("shopItemUse")>>)

\* shop.useItem(itemID, memberID, guildID, client): it throws in the role branch
\* when no client is passed, and when the client does not know the guild (guild is
\* undefined and guild.roles a TypeError); a role that is not found and an
\* assignment that is rejected fail inside the promise, after useItem has returned
useItem(doc, itemID, m, g, client) ==
    LET inv == inventory(doc, m, g)
        i == FindIndex(inv, itemID)
        item == inv[i]
        rec == [DataRecord(doc, m, g) EXCEPT !.inventory = WithoutId(inv, item.id)]
    IN IF ~IsString(m) THEN Result(doc, "throw", 0, <<>>)
       ELSE IF i = 0 THEN Result(doc, "false", 0, <<>>)
       ELSE IF item.role # Null /\ client \in {"none", "noGuild"}
            THEN Result(doc, "throw", 0, <<>>)
       ELSE Result(WriteMember(doc, g, m, rec), "message", item.message,
                   <<ShopEvent("shopItemUse")>>)

\* shop.clearInventory(memberID, guildID): obj[guildID][memberID] = ... is a
\* TypeError when the guild has no entry
clearInventory(doc, m, g) ==
    IF ~IsString(m) \/ ~doc[g].present THEN Result(doc, "throw", 0, <<>>)
    ELSE Result(WriteMember(doc, g, m, [DataRecord(doc, m, g) EXCEPT !.inventory = <<>>]),
                "true", 0, <<>>)

\* shop.clearHistory(memberID, guildID): the arguments are not tested
clearHistory(doc, m, g) ==
    IF ~doc[g].present THEN Result(doc, "throw", 0, <<>>)
    ELSE Result(WriteMember(doc, g, m, [DataRecord(doc, m, g) EXCEPT !.history = <<>>]),
                "true", 0, <<>>)

----------------------------------------------------------------------------
\* Recording an operation of the host

Ret(tag, n) == [tag |-> tag, n |-> n]

\* amount: the amount argument, or the reward drawn by a claim; t: Date.now() of the
\* call; prevGrant: the time of the member's latest earlier successful claim of the
\* same kind (0: none); overlap: the call ran while another call was in flight
\* RewardManager.js, parse: a duration in milliseconds as days, hours, minutes,
\* seconds and milliseconds; Math.floor(x % 24) of a quotient x >= 0 is floor(x) % 24
parse_HoursUnwrapped(ms) ==
    [days |-> ms \div 86400000,
     hours |-> ms \div 3600000,
     minutes |-> (ms \div 60000) % 60,
     seconds |-> (ms \div 1000) % 60,
     milliseconds |-> ms % 1000]

parse(ms) ==
    [days |-> ms \div 86400000,
     hours |-> (ms \div 3600000) % 24,
     minutes |-> (ms \div 60000) % 60,
     seconds |-> (ms \div 1000) % 60,
     milliseconds |-> ms % 1000]

\* no cooldown object in the returned value
NoTime == [days |-> 0, hours |-> 0, minutes |-> 0, seconds |-> 0, milliseconds |-> 0]

Op(name, g, m, amount, item, t, res) ==
    [op |-> name, g |-> g, m |-> m, amount |-> amount, item |-> item, t |-> t,
     ret |-> res.ret, events |-> res.events, prevGrant |-> 0, overlap |-> FALSE,
     time |-> NoTime]

NoOp == [op |-> "none", g |-> "", m |-> "", amount |-> Null, item |-> 0, t |-> 0,
         ret |-> Ret("none", 0), events |-> <<>>, prevGrant |-> 0, overlap |-> FALSE,
         time |-> NoTime]

\* An asynchronous call of RewardManager: idle (not yet made), settings and cooldown
\* (waiting for that read), done (returned)
IdleCall == [pc |-> "idle", kind |-> "daily", m |-> "m1", cooldown |-> Null,
             reward |-> 0, overlap |-> FALSE]

\* The host's view of the last two operations that returned
Record2(op) ==
    /\ pre' = file
    /\ pre2' = pre
    /\ last' = op
    /\ last2' = last

\* The host's view of the last operation that returned
Record1(op) ==
    /\ pre' = file
    /\ last' = op
    /\ UNCHANGED <<pre2, last2>>

Counted == nops < MaxOps /\ nops' = nops + 1

\* this.ready and module.exports.ready after the init of the instance
Ready == [this |-> TRUE, module |-> TRUE]

\* The methods of Economy.shop test module.exports.ready, the others this.ready
ShopOps == {"addItem", "editItem", "removeItem", "clear", "clearInventory",
            "clearHistory", "searchItem", "buy", "useItem", "list", "inventory", "history"}
IsReady(name) == IF name \in ShopOps THEN ready.module ELSE ready.this

\* throw new EconomyError('The module is not ready to work.')
NotReady(doc) == Result(doc, "throw", 0, <<>>)

\* A synchronous operation of Economy: it runs to completion before the host's next call
Sync(name, g, m, amount, item, res) ==
    /\ backend = "json"
    /\ Counted
    /\ LET r == IF IsReady(name) THEN res ELSE NotReady(file)
       IN /\ file' = r.doc
          /\ Record2(Op(name, g, m, amount, item, now, r))

----------------------------------------------------------------------------
\* Documents that earlier runs of the program can have left in the storage file

SomeItem == [id |-> 1, itemName |-> "sword", price |-> 2, message |-> "used",
             role |-> Null, maxAmount |-> Num(1), date |-> 1]

SomeHistory == [id |-> 1, memberID |-> "m1", guildID |-> "g1", itemName |-> "sword",
                price |-> 2, role |-> Null, maxAmount |-> Num(1), date |-> 1]

\* after set(5), bankSet(3), a daily claim at time 1 and a purchase
RichMember == [present |-> TRUE, dailyCooldown |-> Num(1), workCooldown |-> Null,
               weeklyCooldown |-> Null, money |-> Num(5), bank |-> Num(3),
               inventory |-> <<SomeItem>>, history |-> <<SomeHistory>>]

\* after a purchase by a member that had no record: money was NaN, written as null
NullMoneyMember == [RichMember EXCEPT !.money = Null, !.bank = Num(0), !.dailyCooldown = Null]

DocWith(g, m, rec) ==
    [EmptyDoc EXCEPT ![g] = [@ EXCEPT !.present = TRUE, !.members = [@ EXCEPT ![m] = rec]]]

StoredDocs == {EmptyDoc, DocWith("g1", "m1", RichMember), DocWith("g1", "m1", NullMoneyMember)}

\* the catalog after addItem of a sword (maxAmount 1), a potion (no maxAmount) and a
\* gem (maxAmount 0) at time 1
Catalog ==
    addItem(addItem(addItem(EmptyDoc, "g1", "sword", 2, Num(1), 1).doc,
                    "g1", "potion", 3, Null, 1).doc,
            "g1", "gem", 1, Num(0), 1).doc["g1"].shop

\* that catalog after removeItem of the sword and addItem of a new sword at time 2:
\* the new item takes the id shop.length + 1 = 3, which the gem already has
RestockedCatalog ==
    LET doc == [EmptyDoc EXCEPT !["g1"] = [@ EXCEPT !.present = TRUE, !.shop = Catalog]]
    IN addItem(removeItem(doc, ById(1), "g1").doc, "g1", "sword", 2, Num(1), 2).doc["g1"].shop

WithShop(doc, g, shop) == [doc EXCEPT ![g] = [@ EXCEPT !.present = TRUE, !.shop = shop]]

\* the documents the ledger starts from: one of them has a catalog
LedgerDocs == StoredDocs \cup {WithShop(DocWith("g1", "m1", RichMember), "g1", Catalog)}

----------------------------------------------------------------------------
\* Start-up of Economy: init, the retry loop of the constructor, the watcher

MaxAttempts == 2
MaxChanges == 2
MaxInits == 4

\* the storage file: parseable JSON (its content is the variable file), missing, or
\* content that JSON.parse rejects
Storages == {"ok", "absent", "corrupt"}

\* new Promise(...): resolve and reject settle a pending promise and are without
\* effect on a settled one
Resolve(p) == IF p = "pending" THEN "resolved" ELSE p
Reject(p) == IF p = "pending" THEN "rejected" ELSE p

\* the fields of boot before the constructor calls init: errorHandler.attempts = n
Unstarted(s, n) ==
    [storage |-> s,        \* the storage file
     start |-> s,          \* the storage file as the constructor found it
     attempts |-> n,       \* options.errorHandler.attempts
     attempt |-> 0,        \* let attempt of the retry handler
     loop |-> "none",      \* the while loop of the handler: none, sleep, done
     armed |-> FALSE,      \* a callback of check() sleeps before its own check()
     due |-> FALSE,        \* that check() is due in the current round of timers
     inits |-> 0,          \* calls of init made by the retry handler
     watcher |-> FALSE,    \* setInterval has installed the watcher
     promise |-> "none",   \* the promise whose reject the watcher holds
     watched |-> "none",   \* what the latest tick of the watcher found
     log |-> {},           \* what has been printed
     changes |-> 0,        \* changes made to the file from outside
     host |-> HostUnset]   \* the options as the constructor received them

\* One call of init() with well-typed options and the update check switched off, so
\* that the executor runs to its end within the call: [boot, file, ready, outcome],
\* outcome being the state of the promise that init returns
init(b, doc, rdy) ==
    IF rdy.this
    THEN [boot |-> b, file |-> doc, ready |-> rdy, outcome |-> "pending"]
    ELSE CASE b.storage = "absent" ->
                [boot |-> [b EXCEPT !.storage = "ok", !.log = @ \cup {"created"}],
                 file |-> EmptyDoc, ready |-> rdy, outcome |-> "pending"]
           [] b.storage = "corrupt" ->
                [boot |-> b, file |-> doc, ready |-> rdy, outcome |-> Reject("pending")]
           [] b.storage = "ok" ->
                [boot |-> [b EXCEPT !.watcher = TRUE, !.promise = Resolve("pending")],
                 file |-> doc, ready |-> [this |-> TRUE, module |-> TRUE],
                 outcome |-> Resolve("pending")]

\* new Economy(options) with errorHandler.handleErrors: init(), and on a rejection the
\* handler that sets attempt = 0 and enters its loop at the first sleep
constructor(s, n, doc) ==
    LET r == init(Unstarted(s, n), doc, [this |-> FALSE, module |-> FALSE])
    IN IF r.outcome = "rejected"
       THEN [r EXCEPT !.boot = [@ EXCEPT !.loop = "sleep", !.log = @ \cup {"wrong data"}]]
       ELSE r

\* a store that was constructed on a parseable storage file
Started == constructor("ok", MaxAttempts, EmptyDoc).boot

\* constructed by new Economy(o)
StartedWith(o) == [Started EXCEPT !.host = o]

----------------------------------------------------------------------------
\* Specification of the balance ledger (Economy.set/add/subtract and the bank mirror)

NoGrants == [m \in Members |-> [k \in Kinds |-> 0]]

DefaultOptions == InitOptions(HostUnset)

\* The second instance: doc is the document at its storagePath, pre that document
\* when the last operation was called, caller the instance the last operation was
\* called on. NoPeer: the process has one instance.
NoPeer == [doc |-> EmptyDoc, pre |-> EmptyDoc, caller |-> "none"]

InitLedger ==
    /\ file \in LedgerDocs
    /\ options = DefaultOptions
    /\ backend = "json"
    /\ ready = Ready
    /\ now = 1
    /\ last = NoOp /\ last2 = NoOp
    /\ pre = file /\ pre2 = file
    /\ nops = 0
    /\ calls = [c \in CallIds |-> IdleCall]
    /\ tasks = <<>>
    /\ grants = NoGrants
    /\ boot = Started
    /\ peer = NoPeer

LedgerFrame == UNCHANGED <<options, backend, ready, now, calls, tasks, grants, boot, peer>>

DoSet == \E a \in Amounts, m \in LedgerMembers, g \in Guilds :
    Sync("set", g, m, a, 0, set(file, a, m, g)) /\ LedgerFrame

DoAdd == \E a \in Amounts, m \in LedgerMembers, g \in Guilds :
    Sync("add", g, m, a, 0, add(file, a, m, g)) /\ LedgerFrame

DoSubtract == \E a \in Amounts, m \in LedgerMembers, g \in Guilds :
    Sync("subtract", g, m, a, 0, subtract(file, a, m, g)) /\ LedgerFrame

DoBankSet == \E a \in Amounts, m \in LedgerMembers, g \in Guilds :
    Sync("bankSet", g, m, a, 0, bankSet(file, a, m, g)) /\ LedgerFrame

DoBankAdd == \E a \in Amounts, m \in LedgerMembers, g \in Guilds :
    Sync("bankAdd", g, m, a, 0, bankAdd(file, a, m, g)) /\ LedgerFrame

DoBankSubtract == \E a \in Amounts, m \in LedgerMembers, g \in Guilds :
    Sync("bankSubtract", g, m, a, 0, bankSubtract(file, a, m, g)) /\ LedgerFrame

NextLedger ==
    \/ DoSet
    \/ DoAdd
    \/ DoSubtract
    \/ DoBankSet
    \/ DoBankAdd
    \/ DoBankSubtract

SpecLedger == InitLedger /\ [][NextLedger]_vars

----------------------------------------------------------------------------
\* RewardManager (MongoDB flavour): getDaily / getWork / getWeekly are async
\* functions. Each awaits the guild settings, then the member's cooldown, and then,
\* in one synchronous stretch, tests the cooldown, starts balance.add and
\* database.set without awaiting them, and returns.

AmountField(k) ==
    CASE k = "daily" -> "dailyAmount"
      [] k = "work" -> "workAmount"
      [] k = "weekly" -> "weeklyAmount"

\* settings?.<kind>Cooldown || this.options.<kind>Cooldown
EffectiveCooldown(settings, opts, kind) ==
    IF OrNull(settings[CooldownField(kind)]) # Null
    THEN settings[CooldownField(kind)]
    ELSE opts[CooldownField(kind)]

\* a reward specification is falsy when unset or the number 0
Falsy(a) == ~a.array /\ (a.v = <<>> \/ a.v = <<0>>)

\* settings?.<kind>Amount || this.options.<kind>Amount
EffectiveAmount(settings, opts, kind) ==
    IF Falsy(settings[AmountField(kind)])
    THEN opts[AmountField(kind)]
    ELSE settings[AmountField(kind)]

\* lines 88-98: the reward drawn from the reward specification
\* Math.floor(Math.random() * (min - max) + max)
RewardOf(spec, k) ==
    IF spec.array
    THEN IF Len(spec.v) = 1 THEN spec.v[1]
         ELSE FloorDiv(k * (spec.v[1] - spec.v[2]) + spec.v[2] * RandDen, RandDen)
    ELSE spec.v[1]

\* database.get(`${guildID}.settings`)
DbSettings(doc, g) == doc[g].settings

\* cooldowns.get<Kind>(memberID, guildID): the stored timestamp, null when absent
CooldownOf(doc, kind, m, g) ==
    LET v == Field(doc, g, m, CooldownField(kind)) IN IF IsNum(v) THEN v ELSE Null

\* database.set(`${guildID}.${memberID}.${field}`, value): sets the one path,
\* creating the guild and the member when absent
DbSet(doc, g, m, f, value) ==
    [doc EXCEPT ![g] = [@ EXCEPT !.present = TRUE,
                                 !.members = [@ EXCEPT ![m] =
                                     [@ EXCEPT !.present = TRUE, ![f] = value]]]]

InFlight(c) == calls[c].pc \in {"settings", "cooldown"}

\* The host calls getDaily / getWork / getWeekly: the synchronous argument checks
\* pass and the call waits for database.get
StartClaim(c) == \E kind \in Kinds, m \in Callers :
    /\ backend = "mongo"
    /\ calls[c].pc = "idle"
    /\ calls' = [d \in CallIds |->
                   IF d = c
                   THEN [IdleCall EXCEPT !.pc = "settings", !.kind = kind, !.m = m,
                                         !.overlap = \E e \in CallIds \ {c} : InFlight(e)]
                   ELSE IF InFlight(d) THEN [calls[d] EXCEPT !.overlap = TRUE]
                   ELSE calls[d]]
    /\ UNCHANGED <<file, options, backend, ready, now, last, pre, last2, pre2, nops, tasks,
                   grants, boot, peer>>

\* await database.get(...) resumes: cooldown and reward are resolved (lines 80-98)
ReadSettings(c) == \E k \in Draws :
    /\ calls[c].pc = "settings"
    /\ LET settings == DbSettings(file, ClaimGuild)
           kind == calls[c].kind
       IN calls' = [calls EXCEPT ![c] =
              [@ EXCEPT !.pc = "cooldown",
                        !.cooldown = EffectiveCooldown(settings, options, kind),
                        !.reward = RewardOf(EffectiveAmount(settings, options, kind), k)]]
    /\ UNCHANGED <<file, options, backend, ready, now, last, pre, last2, pre2, nops, tasks,
                   grants, boot, peer>>

AddTask(m, g, amount) == [type |-> "add", pc |-> "read", m |-> m, g |-> g, f |-> "money",
                          amount |-> amount, value |-> Null]
SetTask(m, g, f, value) == [type |-> "set", pc |-> "write", m |-> m, g |-> g, f |-> f,
                            amount |-> 0, value |-> value]

\* lines 100-127 (getDaily), 163-190 (getWork), 226-253 (getWeekly): the awaited
\* cooldown read resumes, and the rest of the function runs without another await
Decide(c) ==
    /\ calls[c].pc = "cooldown"
    /\ LET kind == calls[c].kind
           m == calls[c].m
           userCooldown == CooldownOf(file, kind, m, ClaimGuild)
           cooldownEnd == calls[c].cooldown[1] - (now - userCooldown[1])
           blocked == userCooldown # Null /\ cooldownEnd > 0
           name == CASE kind = "daily" -> "getDaily"
                     [] kind = "work" -> "getWork"
                     [] kind = "weekly" -> "getWeekly"
           res == IF blocked
                  THEN Result(file, "false", cooldownEnd, <<>>)
                  ELSE Result(file, "true", calls[c].reward, <<>>)
       IN /\ tasks' = IF blocked THEN tasks
                      ELSE tasks \o <<AddTask(m, ClaimGuild, calls[c].reward),
                                      SetTask(m, ClaimGuild, CooldownField(kind), Num(now))>>
          /\ grants' = IF blocked THEN grants ELSE [grants EXCEPT ![m][kind] = now]
          /\ Record2([Op(name, ClaimGuild, m, calls[c].reward, 0, now, res)
                        EXCEPT !.prevGrant = grants[m][kind],
                               !.overlap = calls[c].overlap,
                               !.time = IF blocked THEN parse(cooldownEnd) ELSE NoTime])
    /\ calls' = [calls EXCEPT ![c] = [IdleCall EXCEPT !.pc = "done"]]
    /\ UNCHANGED <<file, options, backend, ready, now, nops, boot, peer>>

Without(seq, i) == SubSeq(seq, 1, i - 1) \o SubSeq(seq, i + 1, Len(seq))

\* balance.add, first half: the member's balance is read
AddRead == \E i \in 1 .. Len(tasks) :
    /\ tasks[i].type = "add" /\ tasks[i].pc = "read"
    /\ tasks' = [tasks EXCEPT ![i] =
          [@ EXCEPT !.pc = "write",
                    !.value = JSAdd(OrZero(Field(file, tasks[i].g, tasks[i].m, "money")),
                                    Num(tasks[i].amount))]]
    /\ UNCHANGED <<file, options, backend, ready, now, last, pre, last2, pre2, nops, calls,
                   grants, boot, peer>>

\* balance.add, second half: the new balance is written
AddWrite == \E i \in 1 .. Len(tasks) :
    /\ tasks[i].type = "add" /\ tasks[i].pc = "write"
    /\ file' = DbSet(file, tasks[i].g, tasks[i].m, "money", tasks[i].value)
    /\ tasks' = Without(tasks, i)
    /\ UNCHANGED <<options, backend, ready, now, last, pre, last2, pre2, nops, calls, grants, boot, peer>>

\* the database.set of the cooldown stamp completes
StampWrite == \E i \in 1 .. Len(tasks) :
    /\ tasks[i].type = "set"
    /\ file' = DbSet(file, tasks[i].g, tasks[i].m, tasks[i].f, tasks[i].value)
    /\ tasks' = Without(tasks, i)
    /\ UNCHANGED <<options, backend, ready, now, last, pre, last2, pre2, nops, calls, grants, boot, peer>>

----------------------------------------------------------------------------
\* Specification of the cooldown gate: Economy.daily/work/weekly on the JSON file,
\* RewardManager.getDaily/getWork/getWeekly on the database

\* the settings a guild has stored: a daily cooldown and amount, a work cooldown and
\* a work amount of 0, a weekly range
GuildSettings ==
    [NoSettings EXCEPT !.dailyCooldown = Num(1), !.dailyAmount = Fixed(4),
                       !.workCooldown = Num(0), !.workAmount = Fixed(0),
                       !.weeklyAmount = Range(1, 3)]

WithSettings(doc, g, st) == [doc EXCEPT ![g] = [@ EXCEPT !.present = TRUE, !.settings = st]]

InitClaim ==
    /\ backend \in {"json", "mongo"}
    /\ \/ /\ backend = "json"
          /\ file \in StoredDocs
          /\ \E o \in HostOptions : options = InitOptions(o) /\ boot = StartedWith(o)
       \/ /\ backend = "mongo"
          /\ file \in {EmptyDoc, WithSettings(DocWith("g1", "m1", RichMember), "g1", GuildSettings)}
          /\ options = HostShort
          /\ boot = StartedWith(HostShort)
    /\ ready = Ready
    /\ now = 1
    /\ last = NoOp /\ last2 = NoOp
    /\ pre = file /\ pre2 = file
    /\ nops = 0
    /\ calls = [c \in CallIds |-> IdleCall]
    /\ tasks = <<>>
    /\ grants = [m \in Members |-> [k \in Kinds |->
                    IF IsNum(Field(file, ClaimGuild, m, CooldownField(k)))
                    THEN Field(file, ClaimGuild, m, CooldownField(k))[1] ELSE 0]]
    /\ peer = NoPeer

\* A claim of Economy: synchronous
SyncClaim(kind, m, res) ==
    /\ backend = "json"
    /\ Counted
    /\ LET r == IF IsReady(kind) THEN res ELSE NotReady(file)
       IN /\ file' = r.doc
          /\ Record1([Op(kind, ClaimGuild, m, r.ret.n, 0, now, r)
                        EXCEPT !.prevGrant = grants[m][kind]])
          /\ grants' = IF r.ret.tag = "number" THEN [grants EXCEPT ![m][kind] = now]
                       ELSE grants
    /\ UNCHANGED <<options, backend, ready, now, calls, tasks, boot, peer>>

DoDaily == \E m \in Members :
    SyncClaim("daily", m, daily(file, options, m, ClaimGuild, now))

DoWork == \E m \in Members, k \in Draws :
    SyncClaim("work", m, work(file, options, k, m, ClaimGuild, now))

DoWeekly == \E m \in Members :
    SyncClaim("weekly", m, weekly(file, options, m, ClaimGuild, now))

Tick ==
    /\ now < MaxTime
    /\ now' = now + 1
    /\ UNCHANGED <<file, options, backend, ready, last, pre, last2, pre2, nops, calls, tasks,
                   grants, boot, peer>>

NextClaim ==
    \/ DoDaily
    \/ DoWork
    \/ DoWeekly
    \/ Tick
    \/ \E c \in CallIds : StartClaim(c)
    \/ \E c \in CallIds : ReadSettings(c)
    \/ \E c \in CallIds : Decide(c)
    \/ AddRead
    \/ AddWrite
    \/ StampWrite

SpecClaim == InitClaim /\ [][NextClaim]_vars

----------------------------------------------------------------------------
\* Specification of the shop: Economy.shop.addItem and Economy.shop.buy

ItemNames == {"sword", "potion"}
Prices == {2}
MaxAmounts == {Null, Num(0), Num(1)}
ItemIDs == {ById(1), ById(2), ByName("sword"), ByName("potion")}

ShopDocs == StoredDocs \cup {WithShop(d, "g1", Catalog) : d \in StoredDocs}

InitShop ==
    /\ file \in ShopDocs
    /\ options = DefaultOptions
    /\ backend = "json"
    /\ ready = Ready
    /\ now = 1
    /\ last = NoOp /\ last2 = NoOp
    /\ pre = file /\ pre2 = file
    /\ nops = 0
    /\ calls = [c \in CallIds |-> IdleCall]
    /\ tasks = <<>>
    /\ grants = NoGrants
    /\ boot = Started
    /\ peer = NoPeer

DoAddItem == \E g \in Guilds, name \in ItemNames, price \in Prices, max \in MaxAmounts :
    Sync("addItem", g, "", price, ByName(name), addItem(file, g, name, price, max, now))
        /\ LedgerFrame

DoBuy == \E itemID \in ItemIDs \cup {ById(3), ByName("gem")}, m \in Members, g \in Guilds :
    Sync("buy", g, m, 0, itemID, buy(file, itemID, m, g, now)) /\ LedgerFrame

NextShop ==
    \/ DoAddItem
    \/ DoBuy

SpecShop == InitShop /\ [][NextShop]_vars

----------------------------------------------------------------------------
\* Specification of the catalog: Economy.shop.addItem, editItem, removeItem, clear

CatalogDocs ==
    {EmptyDoc, WithShop(DocWith("g1", "m1", RichMember), "g1", Catalog),
     WithShop(EmptyDoc, "g1", RestockedCatalog)}

CatalogIDs == {ById(1), ById(3), ByName("sword"), ByName("gem"), ByName("nothing")}

InitCatalog ==
    /\ file \in CatalogDocs
    /\ options = DefaultOptions
    /\ backend = "json"
    /\ ready = Ready
    /\ now = 1
    /\ last = NoOp /\ last2 = NoOp
    /\ pre = file /\ pre2 = file
    /\ nops = 0
    /\ calls = [c \in CallIds |-> IdleCall]
    /\ tasks = <<>>
    /\ grants = NoGrants
    /\ boot = Started
    /\ peer = NoPeer

\* the edits the host makes: a price, a name, a maxAmount, a value left out, and an
\* arg outside the recognised set
Edits == {"price", "itemName", "maxAmount", "unset", "id"}
EditArg(e) == IF e = "unset" THEN "price" ELSE e
EditValue(e) ==
    CASE e = "price" -> <<5>>
      [] e = "itemName" -> <<"gem">>
      [] e = "maxAmount" -> <<Num(2)>>
      [] e = "unset" -> <<>>
      [] e = "id" -> <<9>>

DoEditItem == \E itemID \in CatalogIDs, g \in Guilds, e \in Edits :
    Sync("editItem", g, "", e, itemID,
         editItem(file, itemID, g, EditArg(e), EditValue(e))) /\ LedgerFrame

DoRemoveItem == \E itemID \in CatalogIDs, g \in Guilds :
    Sync("removeItem", g, "", 0, itemID, removeItem(file, itemID, g)) /\ LedgerFrame

DoClear == \E g \in Guilds :
    Sync("clear", g, "", 0, ById(0), clear(file, g)) /\ LedgerFrame

NextCatalog ==
    \/ DoAddItem
    \/ DoEditItem
    \/ DoRemoveItem
    \/ DoClear

SpecCatalog == InitCatalog /\ [][NextCatalog]_vars

----------------------------------------------------------------------------
\* Specification of the inventory: Economy.shop.buy, useItem and clearInventory

\* a role reference of an item: any truthy value
Role == Num(1)

\* the inventory and history entries of a badge (an item with a role) bought second
BadgeItem == [id |-> 2, itemName |-> "badge", price |-> 1, message |-> "used",
              role |-> Role, maxAmount |-> Null, date |-> 1]

BadgeHistory == [id |-> 2, memberID |-> "m1", guildID |-> "g1", itemName |-> "badge",
                 price |-> 1, role |-> Role, maxAmount |-> Null, date |-> 1]

\* after the purchase of a sword and then of a badge
TwoItemMember == [RichMember EXCEPT !.inventory = <<SomeItem, BadgeItem>>,
                                    !.history = <<SomeHistory, BadgeHistory>>]

\* that member after useItem of the sword and buy of a potion at time 2: the potion
\* takes the id inv.length + 1 = 2, which the badge already has
RestockedMember ==
    LET doc == WithShop(DocWith("g1", "m1", TwoItemMember), "g1", Catalog)
        used == useItem(doc, ById(1), "m1", "g1", "none").doc
    IN buy(used, ByName("potion"), "m1", "g1", 2).doc["g1"].members["m1"]

InventoryDocs ==
    {EmptyDoc} \cup {WithShop(d, "g1", Catalog) :
                        d \in {EmptyDoc, DocWith("g1", "m1", RichMember),
                               DocWith("g1", "m1", TwoItemMember),
                               DocWith("g1", "m1", RestockedMember)}}

UseIDs == {ById(1), ById(2), ById(3), ByName("sword"), ByName("potion")}

InitInventory ==
    /\ file \in InventoryDocs
    /\ options = DefaultOptions
    /\ backend = "json"
    /\ ready = Ready
    /\ now = 1
    /\ last = NoOp /\ last2 = NoOp
    /\ pre = file /\ pre2 = file
    /\ nops = 0
    /\ calls = [c \in CallIds |-> IdleCall]
    /\ tasks = <<>>
    /\ grants = NoGrants
    /\ boot = Started
    /\ peer = NoPeer

DoUseItem == \E itemID \in UseIDs, m \in Members, g \in Guilds, client \in Clients :
    Sync("useItem", g, m, 0, itemID, useItem(file, itemID, m, g, client)) /\ LedgerFrame

DoClearInventory == \E m \in Members, g \in Guilds :
    Sync("clearInventory", g, m, 0, ById(0), clearInventory(file, m, g)) /\ LedgerFrame

NextInventory ==
    \/ DoBuy
    \/ DoUseItem
    \/ DoClearInventory

SpecInventory == InitInventory /\ [][NextInventory]_vars

----------------------------------------------------------------------------
\* Specification of the operations that can end with an error: the claims of an
\* instance whose weeklyAmount is an array (init does not test its type), useItem
\* of an item with a role, clearInventory of a guild without a record

HostArray == [HostShort EXCEPT !.weeklyAmount = Range(1, 2)]

InitErrors ==
    /\ file \in StoredDocs \cup InventoryDocs
    /\ options = InitOptions(HostArray)
    /\ backend = "json"
    /\ ready = Ready
    /\ now = 1
    /\ last = NoOp /\ last2 = NoOp
    /\ pre = file /\ pre2 = file
    /\ nops = 0
    /\ calls = [c \in CallIds |-> IdleCall]
    /\ tasks = <<>>
    /\ grants = NoGrants
    /\ boot = StartedWith(HostArray)
    /\ peer = NoPeer

NextErrors ==
    \/ DoDaily
    \/ DoWork
    \/ DoWeekly
    \/ Tick
    \/ DoUseItem
    \/ DoClearInventory

SpecErrors == InitErrors /\ [][NextErrors]_vars

----------------------------------------------------------------------------
\* Specification of the calls with arguments of the wrong type: an amount that is
\* null, a string that reads no number or undefined, the number 42 as memberID, an
\* editItem arg outside the recognised set and an editItem value left out

BalanceOps == {"set", "add", "subtract", "bankSet", "bankAdd", "bankSubtract"}

BalanceOp(op, doc, amount, m, g) ==
    CASE op = "set" -> set(doc, amount, m, g)
      [] op = "add" -> add(doc, amount, m, g)
      [] op = "subtract" -> subtract(doc, amount, m, g)
      [] op = "bankSet" -> bankSet(doc, amount, m, g)
      [] op = "bankAdd" -> bankAdd(doc, amount, m, g)
      [] op = "bankSubtract" -> bankSubtract(doc, amount, m, g)

\* null, 'abc' as Number reads it, undefined
InvalidAmounts == {Null, NaN, Undefined}

InitValidation ==
    /\ file \in LedgerDocs
    /\ options = DefaultOptions
    /\ backend = "json"
    /\ ready = Ready
    /\ now = 1
    /\ last = NoOp /\ last2 = NoOp
    /\ pre = file /\ pre2 = file
    /\ nops = 0
    /\ calls = [c \in CallIds |-> IdleCall]
    /\ tasks = <<>>
    /\ grants = NoGrants
    /\ boot = Started
    /\ peer = NoPeer

DoInvalidAmount == \E op \in BalanceOps, a \in InvalidAmounts, g \in Guilds :
    Sync(op, g, "m1", a, 0, BalanceOp(op, file, a, "m1", g)) /\ LedgerFrame

DoInvalidMember == \E op \in BalanceOps, g \in Guilds :
    Sync(op, g, NumberKey, Num(2), 0, BalanceOp(op, file, Num(2), NumberKey, g))
        /\ LedgerFrame

DoInvalidBuyer == \E g \in Guilds :
    /\ \/ Sync("buy", g, NumberKey, 0, ById(1), buy(file, ById(1), NumberKey, g, now))
       \/ Sync("useItem", g, NumberKey, 0, ById(1),
               useItem(file, ById(1), NumberKey, g, "none"))
       \/ Sync("clearInventory", g, NumberKey, 0, ById(0),
               clearInventory(file, NumberKey, g))
    /\ LedgerFrame

DoClearHistory == \E m \in {"m1", ShopKey, NumberKey}, g \in Guilds :
    Sync("clearHistory", g, m, 0, ById(0), clearHistory(file, m, g)) /\ LedgerFrame

NextValidation ==
    \/ DoInvalidAmount
    \/ DoInvalidMember
    \/ DoInvalidBuyer
    \/ DoClearHistory
    \/ DoEditItem

SpecValidation == InitValidation /\ [][NextValidation]_vars

----------------------------------------------------------------------------
\* Specification of readiness: the host calls an instance before and after its init
\* has completed, in a process where another instance may already be ready

ReadyStates == {[this |-> FALSE, module |-> FALSE], [this |-> FALSE, module |-> TRUE], Ready}

InitReady ==
    /\ file \in LedgerDocs
    /\ options = DefaultOptions
    /\ backend = "json"
    /\ ready \in ReadyStates
    /\ now = 1
    /\ last = NoOp /\ last2 = NoOp
    /\ pre = file /\ pre2 = file
    /\ nops = 0
    /\ calls = [c \in CallIds |-> IdleCall]
    /\ tasks = <<>>
    /\ grants = NoGrants
    /\ boot = Started
    /\ peer = NoPeer

\* the end of Economy.init: this.ready = true; module.exports.ready = true
DoInit ==
    /\ ~ready.this
    /\ ready' = Ready
    /\ UNCHANGED <<file, options, backend, now, last, pre, last2, pre2, nops, calls, tasks,
                   grants, boot, peer>>

NextReady ==
    \/ DoInit
    \/ DoSet
    \/ DoBankAdd
    \/ DoDaily
    \/ DoAddItem
    \/ DoBuy
    \/ DoUseItem

SpecReady == InitReady /\ [][NextReady]_vars

----------------------------------------------------------------------------
\* Claims about the balance ledger

SameCall(a, b) == a.g = b.g /\ a.m = b.m /\ a.amount = b.amount

\* C1: add(n, m, g) followed by subtract(n, m, g) leaves fetch(m, g) at its value
\* before the two calls, for members with and without a record; likewise
\* bankAdd/bankSubtract and bankFetch.
C1_AddSubtractRestores ==
    /\ (last2.op = "add" /\ last.op = "subtract" /\ SameCall(last, last2))
         => fetch(file, last.m, last.g) = fetch(pre2, last.m, last.g)
    /\ (last2.op = "bankAdd" /\ last.op = "bankSubtract" /\ SameCall(last, last2))
         => bankFetch(file, last.m, last.g) = bankFetch(pre2, last.m, last.g)

C1_Witness ==
    /\ last2.op = "add" /\ last.op = "subtract" /\ SameCall(last, last2)
    /\ ~Member(pre2, last.g, last.m).present
    /\ ~pre2[last.g].present
    /\ fetch(pre, last.m, last.g) = last.amount

\* C2: set(a, m, g) twice in a row with the same amount yields the same persisted
\* document, the same balance and the same return value as calling it once;
\* likewise bankSet.
C2_SetIdempotent ==
    /\ (last2.op = "set" /\ last.op = "set" /\ SameCall(last, last2))
         => /\ file = pre
            /\ fetch(file, last.m, last.g) = fetch(pre, last.m, last.g)
            /\ last.ret = last2.ret
    /\ (last2.op = "bankSet" /\ last.op = "bankSet" /\ SameCall(last, last2))
         => /\ file = pre
            /\ bankFetch(file, last.m, last.g) = bankFetch(pre, last.m, last.g)
            /\ last.ret = last2.ret

C2_Witness ==
    /\ last2.op = "set" /\ last.op = "set" /\ SameCall(last, last2)
    /\ pre2 # pre
    /\ Member(pre2, last.g, last.m).present

----------------------------------------------------------------------------
\* Claims about the cooldown gate

EconomyClaims == {"daily", "work", "weekly"}
ManagerClaims == {"getDaily", "getWork", "getWeekly"}

IsClaim(o) == o.op \in EconomyClaims \cup ManagerClaims

KindOf(o) ==
    CASE o.op \in {"daily", "getDaily"} -> "daily"
      [] o.op \in {"work", "getWork"} -> "work"
      [] o.op \in {"weekly", "getWeekly"} -> "weekly"

\* the claim returned the reward (Economy) or status true (RewardManager)
Granted(o) == IsClaim(o) /\ o.ret.tag \in {"number", "true"}

\* the claim returned the remaining time (Economy) or status false (RewardManager)
Refused(o) == IsClaim(o) /\ o.ret.tag \in {"string", "false"}

\* the cooldown duration in force for a claim made on document doc
Duration(doc, o) ==
    IF o.op \in EconomyClaims
    THEN options[CooldownField(KindOf(o))][1]
    ELSE EffectiveCooldown(DbSettings(doc, o.g), options, KindOf(o))[1]

StoredCooldown(doc, o) == Field(doc, o.g, o.m, CooldownField(KindOf(o)))

\* what the reads of the API return for a member
View(doc, m, g) == Rebuilt(doc, m, g)

\* RewardManager: one whole claim run on doc with nothing else in between
SerialClaim(doc, o) ==
    LET kind == KindOf(o)
        cooldown == EffectiveCooldown(DbSettings(doc, o.g), options, kind)
        userCooldown == CooldownOf(doc, kind, o.m, o.g)
        credited == DbSet(doc, o.g, o.m, "money",
                          JSAdd(OrZero(Field(doc, o.g, o.m, "money")), Num(o.amount)))
    IN IF userCooldown # Null /\ cooldown[1] - (o.t - userCooldown[1]) > 0
       THEN doc
       ELSE DbSet(credited, o.g, o.m, CooldownField(kind), Num(o.t))

Quiescent == tasks = <<>> /\ \A c \in CallIds : calls[c].pc = "done"

\* C3: no lost updates: when two mutating operations were issued back-to-back, the
\* final document equals the result of running the two one after the other in
\* some order.
C3_NoLostUpdates ==
    (backend = "mongo" /\ Quiescent /\ last.overlap /\ IsClaim(last2))
        => file \in {SerialClaim(SerialClaim(pre2, last2), last),
                     SerialClaim(SerialClaim(pre2, last), last2)}

C5_RepeatRefused ==
    (IsClaim(last) /\ last.prevGrant # 0 /\ last.t - last.prevGrant < Duration(pre, last))
        => /\ Refused(last)
           /\ last.ret.n > 0
           /\ View(file, last.m, last.g) = View(pre, last.m, last.g)

\* C6: after a successful claim of kind K at time t, a claim of kind K by the same
\* member at any t' >= t + duration succeeds again, the boundary included.
C6_ClaimAgainAfterDuration ==
    (IsClaim(last) /\ last.prevGrant # 0 /\ last.t >= last.prevGrant + Duration(pre, last))
        => Granted(last)

C6_Witness ==
    /\ last.op = "daily"
    /\ last.prevGrant # 0
    /\ last.t = last.prevGrant + Duration(pre, last)
    /\ Granted(last)

\* C7: when a claim returns the reward r, the persisted record has money = previous
\* money + r and <kind>Cooldown = the claim time; bank, inventory, history and the
\* other two cooldowns are unchanged.
C7_GrantPersisted ==
    Granted(last)
        => View(file, last.m, last.g) =
             [View(pre, last.m, last.g) EXCEPT
                 !.money = JSAdd(@, Num(last.ret.n)),
                 ![CooldownField(KindOf(last))] = Num(last.t)]

\* C8: two RewardManager claims of the same kind for the same member, the second
\* started without awaiting the first, never both return status true within one
\* cooldown window.
C8_OneGrantPerWindow ==
    ~ /\ last.op \in ManagerClaims /\ last2.op = last.op /\ last2.m = last.m
      /\ last.overlap
      /\ Granted(last2) /\ Granted(last)
      /\ last.t - last2.t < Duration(pre, last)

----------------------------------------------------------------------------
\* Claims about the shop

\* the catalog item that a buy located
Bought(doc, o) == ShopOf(doc, o.g)[FindIndex(ShopOf(doc, o.g), o.item)]

Located(doc, o) == FindIndex(ShopOf(doc, o.g), o.item) # 0

\* number of inventory entries with the item's name
Held(doc, o) ==
    Cardinality({i \in 1 .. Len(inventory(doc, o.m, o.g)) :
                    inventory(doc, o.m, o.g)[i].itemName = Bought(doc, o).itemName})

\* C9: for any member (no record counts as money 0) and any catalog item whose
\* maxAmount is not reached, buy returns success; afterwards money = previous money
\* - price, the inventory has one more entry, appended last, with id = previous
\* length + 1, the history has one more entry appended last, and bank and the three
\* cooldowns are unchanged.
C9_BuyDebitsAndAppends ==
    (last.op = "buy" /\ Located(pre, last)
       /\ (Bought(pre, last).maxAmount = Null
           \/ Held(pre, last) < Bought(pre, last).maxAmount[1]))
     => LET before == View(pre, last.m, last.g)
            after == View(file, last.m, last.g)
        IN /\ last.ret.tag = "true"
           /\ after.money = JSSub(before.money, Num(Bought(pre, last).price))
           /\ Len(after.inventory) = Len(before.inventory) + 1
           /\ SubSeq(after.inventory, 1, Len(before.inventory)) = before.inventory
           /\ after.inventory[Len(after.inventory)].id = Len(before.inventory) + 1
           /\ Len(after.history) = Len(before.history) + 1
           /\ SubSeq(after.history, 1, Len(before.history)) = before.history
           /\ after.bank = before.bank
           /\ after.dailyCooldown = before.dailyCooldown
           /\ after.workCooldown = before.workCooldown
           /\ after.weeklyCooldown = before.weeklyCooldown

\* C10: whenever the item's maxAmount is set (non-null, 0 included) and the member's
\* inventory already holds at least maxAmount entries with the item's name, buy
\* returns the max-reached outcome, leaves the document unchanged and emits no event.
C10_MaxReachedNoChange ==
    (last.op = "buy" /\ Located(pre, last)
       /\ Bought(pre, last).maxAmount # Null
       /\ Held(pre, last) >= Bought(pre, last).maxAmount[1])
     => /\ last.ret.tag = "max"
        /\ file = pre
        /\ last.events = <<>>

----------------------------------------------------------------------------
\* Specification of the calls on records that may be absent: the shop methods on
\* guilds and members with and without a record, useItem with every kind of client

\* shop.searchItem as a call of the host: the item, false, or the TypeError
searchCall(doc, itemID, g) ==
    IF ShopBroken(doc, g) THEN Result(doc, "throw", 0, <<>>)
    ELSE IF searchItem(doc, itemID, g) = <<>> THEN Result(doc, "false", 0, <<>>)
    ELSE Result(doc, "item", searchItem(doc, itemID, g)[1].id, <<>>)

InitRecords ==
    /\ file \in InventoryDocs
    /\ options = DefaultOptions
    /\ backend = "json"
    /\ ready = Ready
    /\ now = 1
    /\ last = NoOp /\ last2 = NoOp
    /\ pre = file /\ pre2 = file
    /\ nops = 0
    /\ calls = [c \in CallIds |-> IdleCall]
    /\ tasks = <<>>
    /\ grants = NoGrants
    /\ boot = Started
    /\ peer = NoPeer

DoSearchItem == \E itemID \in CatalogIDs, g \in Guilds :
    Sync("searchItem", g, "", 0, itemID, searchCall(file, itemID, g)) /\ LedgerFrame

\* useItem, recording what the host passed as client
DoUseItemWith == \E itemID \in UseIDs, m \in Members, g \in Guilds, client \in Clients :
    Sync("useItem", g, m, client, itemID, useItem(file, itemID, m, g, client)) /\ LedgerFrame

NextRecords ==
    \/ DoSearchItem
    \/ DoRemoveItem
    \/ DoClear
    \/ DoBuy
    \/ DoUseItemWith
    \/ DoClearInventory
    \/ DoClearHistory

SpecRecords == InitRecords /\ [][NextRecords]_vars

----------------------------------------------------------------------------
\* Specification of the reads: fetch, bankFetch, the cooldown getters, inventory,
\* history, list, searchItem and all, between calls of set

\* a read returns its value and hands the document back as it found it
Read(doc, value) == Result(doc, "value", value, <<>>)

ReadDocs ==
    {EmptyDoc, DocWith("g1", "m1", NullMoneyMember),
     WithShop(DocWith("g1", "m1", TwoItemMember), "g1", Catalog)}

InitReads ==
    /\ file \in ReadDocs
    /\ options = DefaultOptions
    /\ backend = "json"
    /\ ready = Ready
    /\ now = 1
    /\ last = NoOp /\ last2 = NoOp
    /\ pre = file /\ pre2 = file
    /\ nops = 0
    /\ calls = [c \in CallIds |-> IdleCall]
    /\ tasks = <<>>
    /\ grants = NoGrants
    /\ boot = Started
    /\ peer = NoPeer

DoFetch == \E m \in Members, g \in Guilds :
    Sync("fetch", g, m, Null, 0, Read(file, fetch(file, m, g))) /\ LedgerFrame

DoBankFetch == \E m \in Members, g \in Guilds :
    Sync("bankFetch", g, m, Null, 0, Read(file, bankFetch(file, m, g))) /\ LedgerFrame

DoGetCooldown == \E m \in Members, g \in Guilds :
    /\ \/ Sync("getDailyCooldown", g, m, Null, 0, Read(file, getDailyCooldown(file, m, g)))
       \/ Sync("getWorkCooldown", g, m, Null, 0, Read(file, getWorkCooldown(file, m, g)))
       \/ Sync("getWeeklyCooldown", g, m, Null, 0, Read(file, getWeeklyCooldown(file, m, g)))
    /\ LedgerFrame

DoInventory == \E m \in Members, g \in Guilds :
    Sync("inventory", g, m, Null, 0, Read(file, inventory(file, m, g))) /\ LedgerFrame

DoHistory == \E m \in Members, g \in Guilds :
    Sync("history", g, m, Null, 0, Read(file, history(file, m, g))) /\ LedgerFrame

DoList == \E g \in Guilds :
    Sync("list", g, "", Null, 0, Read(file, ShopOf(file, g))) /\ LedgerFrame

\* all(): the whole document
DoAll == Sync("all", "", "", Null, 0, Read(file, file)) /\ LedgerFrame

NextReads ==
    \/ DoFetch
    \/ DoBankFetch
    \/ DoGetCooldown
    \/ DoInventory
    \/ DoHistory
    \/ DoList
    \/ DoSearchItem
    \/ DoAll
    \/ DoSet

SpecReads == InitReads /\ [][NextReads]_vars

----------------------------------------------------------------------------
\* Specification of the start-up: the constructor on a parseable, a missing and an
\* unparseable storage file, the timers of the retry handler, the watcher, and
\* changes of the file from outside

InitBoot == \E s \in Storages, n \in 1 .. MaxAttempts, doc \in StoredDocs :
    /\ boot = constructor(s, n, doc).boot
    /\ file = constructor(s, n, doc).file
    /\ ready = constructor(s, n, doc).ready
    /\ options = DefaultOptions
    /\ backend = "json"
    /\ now = 1
    /\ last = NoOp /\ last2 = NoOp
    /\ pre = file /\ pre2 = file
    /\ nops = 0
    /\ calls = [c \in CallIds |-> IdleCall]
    /\ tasks = <<>>
    /\ grants = NoGrants
    /\ peer = NoPeer

BootFrame ==
    UNCHANGED <<options, backend, now, last, pre, last2, pre2, nops, calls, tasks, grants, peer>>

\* The sleep of the while loop ends: if (attempt < attempts) check().then(callback),
\* then the loop tests its condition and sleeps again or ends, and then the callback
\* runs: a failed check counts an attempt and, unless it was the last one, sleeps
\* before a check of its own; a successful one sets attempt = -1
RetryWake ==
    /\ boot.loop = "sleep" /\ ~boot.due
    /\ boot.inits < MaxInits
    /\ LET checks == boot.attempt < boot.attempts
           again == boot.attempt < boot.attempts /\ boot.attempt # -1
           r == init(boot, file, ready)
           attempt == CASE ~checks -> boot.attempt
                        [] checks /\ r.outcome = "rejected" -> boot.attempt + 1
                        [] checks /\ r.outcome = "resolved" -> -1
                        [] checks /\ r.outcome = "pending" -> boot.attempt
           said == CASE checks /\ r.outcome = "resolved" -> {"started"}
                     [] checks /\ r.outcome = "rejected" /\ attempt = boot.attempts -> {"failed"}
                     [] OTHER -> {}
           b == IF checks THEN r.boot ELSE boot
       IN /\ boot' = [b EXCEPT !.attempt = attempt,
                               !.loop = IF again THEN "sleep" ELSE "done",
                               !.due = boot.armed,
                               !.armed = checks /\ r.outcome = "rejected"
                                          /\ attempt # boot.attempts,
                               !.inits = IF checks THEN @ + 1 ELSE @,
                               !.log = @ \cup said]
          /\ file' = IF checks THEN r.file ELSE file
          /\ ready' = IF checks THEN r.ready ELSE ready
    /\ BootFrame

\* The sleep of a callback ends, in the round of timers in which it is due, after the
\* loop's: check(), whose result nobody reads
ExtraCheck ==
    /\ boot.due
    /\ boot.inits < MaxInits
    /\ LET r == init(boot, file, ready)
       IN /\ boot' = [r.boot EXCEPT !.due = FALSE, !.inits = @ + 1,
                                    !.log = @ \cup IF r.outcome = "resolved"
                                                   THEN {"started"} ELSE {}]
          /\ file' = r.file
          /\ ready' = r.ready
    /\ BootFrame

\* A tick of the watcher: a missing file is written as '{}'; content that does not
\* parse goes to the reject of the promise of the init call that installed the watcher
WatcherTick ==
    /\ boot.watcher
    /\ boot' = [boot EXCEPT !.watched = boot.storage,
                            !.storage = IF @ = "absent" THEN "ok" ELSE @,
                            !.log = IF boot.storage = "absent" THEN @ \cup {"recreated"} ELSE @,
                            !.promise = IF boot.storage = "corrupt" THEN Reject(@) ELSE @]
    /\ file' = IF boot.storage = "absent" THEN EmptyDoc ELSE file
    /\ UNCHANGED ready
    /\ BootFrame

\* Changes from outside the program: the file is removed, overwritten with text that
\* is not JSON, or put back as it was
Vanish ==
    /\ boot.storage # "absent" /\ boot.changes < MaxChanges
    /\ boot' = [boot EXCEPT !.storage = "absent", !.changes = @ + 1, !.watched = "none"]
    /\ UNCHANGED <<file, ready>>
    /\ BootFrame

Garble ==
    /\ boot.storage # "corrupt" /\ boot.changes < MaxChanges
    /\ boot' = [boot EXCEPT !.storage = "corrupt", !.changes = @ + 1, !.watched = "none"]
    /\ UNCHANGED <<file, ready>>
    /\ BootFrame

Repair ==
    /\ boot.storage = "corrupt" /\ boot.changes < MaxChanges
    /\ boot' = [boot EXCEPT !.storage = "ok", !.changes = @ + 1, !.watched = "none"]
    /\ UNCHANGED <<file, ready>>
    /\ BootFrame

NextBoot ==
    \/ RetryWake
    \/ ExtraCheck
    \/ WatcherTick
    \/ Vanish
    \/ Garble
    \/ Repair

SpecBoot == InitBoot /\ [][NextBoot]_vars

\* the timers of the program fire as long as they are set
SpecBootLive ==
    /\ SpecBoot
    /\ WF_vars(RetryWake)
    /\ WF_vars(ExtraCheck)
    /\ WF_vars(WatcherTick)

----------------------------------------------------------------------------
\* Claims about the inventory

\* no entry of the list matches the identifier, by id or by name
NoMatch(seq, itemID) ==
    \A i \in 1 .. Len(seq) : seq[i].id # itemID.id /\ seq[i].itemName # itemID.name

----------------------------------------------------------------------------
\* Claims about the catalog

\* the item that the last addItem pushed and returned
Added == ShopOf(file, last.g)[Len(ShopOf(file, last.g))]

\* C12: after item = addItem(g, spec), searchItem(item.id, g) and
\* searchItem(item.itemName, g) both return a record equal to item, in any catalog
\* reachable by addItem, removeItem, editItem and clear.
C12_AddThenSearch ==
    last.op = "addItem"
     => /\ searchItem(file, ById(Added.id), last.g) = <<Added>>
        /\ searchItem(file, ByName(Added.itemName), last.g) = <<Added>>

\* no two entries of the list have the same id
UniqueIds(seq) == \A i, j \in 1 .. Len(seq) : seq[i].id = seq[j].id => i = j

\* the ids of the entries of the list
IdsOf(seq) == {seq[i].id : i \in 1 .. Len(seq)}

\* C18: after any sequence of addItem, removeItem, editItem and clear on a guild, no
\* two items of that guild's catalog have the same id.
C18_CatalogIdsUnique == \A g \in Guilds : UniqueIds(ShopOf(file, g))

\* C19: the id returned by addItem is strictly greater than every id that addItem
\* returned before for that guild (the ids of the items that were in the catalog
\* before the last two operations and before the last one), also after removals.
C19_IdsNeverReused ==
    last.op = "addItem"
     => \A id \in IdsOf(ShopOf(pre2, last.g)) \cup IdsOf(ShopOf(pre, last.g)) :
            last.ret.n > id

----------------------------------------------------------------------------
\* Claims about the results and the frame of the balance operations

MoneyOps == {"set", "add", "subtract"}
BankOps == {"bankSet", "bankAdd", "bankSubtract"}

\* C13: set, add and subtract (and bankSet, bankAdd, bankSubtract) return the
\* member's new balance: the value returned equals what fetch (resp. bankFetch)
\* returns immediately afterwards.
C13_ReturnsNewBalance ==
    /\ last.op \in MoneyOps => last.ret.n = fetch(file, last.m, last.g)
    /\ last.op \in BankOps => last.ret.n = bankFetch(file, last.m, last.g)

\* what a balance operation on (m, g) has to leave alone: the member's other balance,
\* cooldowns, inventory and history as the API reads them
Siblings(doc, o) ==
    [View(doc, o.m, o.g) EXCEPT ![IF o.op \in MoneyOps THEN "money" ELSE "bank"] = Null]

\* C14: a balance operation on (m, g) changes only the targeted field of that
\* member: the member's other balance, cooldowns, inventory and history, every other
\* member's record, the guild's shop and settings, and every other guild are unchanged.
C14_BalanceFrame ==
    last.op \in MoneyOps \cup BankOps
     => /\ Siblings(file, last) = Siblings(pre, last)
        /\ \A m \in Keys \ {last.m} : Member(file, last.g, m) = Member(pre, last.g, m)
        /\ ShopOf(file, last.g) = ShopOf(pre, last.g)
        /\ file[last.g].settings = pre[last.g].settings
        /\ \A g \in Guilds \ {last.g} : file[g] = pre[g]

----------------------------------------------------------------------------
\* Claims about errors

\* C15: whenever a public mutating operation ends by raising an error, the
\* persisted document is identical to the document before the call; a claim whose
\* reward credit fails does not leave the cooldown stamped.
C15_ErrorLeavesDocument == last.ret.tag = "throw" => file = pre

\* the call had an argument of the wrong type or shape
Invalid(o) ==
    \/ o.op \in BalanceOps /\ ~IsNum(o.amount) /\ ~IsInf(o.amount)
    \/ o.op \in BalanceOps \cup {"buy", "useItem", "clearInventory", "clearHistory"}
          /\ ~IsString(o.m)
    \/ o.op = "editItem" /\ o.amount \in {"unset", "id"}

\* C16: an operation called with an argument of the wrong type or shape (non-numeric
\* amount, non-string memberID, editItem arg outside the recognised set, editItem
\* value unset) raises a validation error, writes nothing and emits no notification.
C16_InvalidArgumentRejected ==
    Invalid(last) => /\ last.ret.tag = "throw"
                     /\ file = pre
                     /\ last.events = <<>>

\* C17: every ledger, cooldown and shop operation invoked on an instance whose
\* initialization has not completed fails with a not-ready error and does not write
\* the document, also when another instance in the same process is already ready.
C17_NotReadyRejected ==
    [][(~ready.this /\ nops' # nops) => (last'.ret.tag = "throw" /\ file' = file)]_vars

\* C20: after any sequence of buy, useItem and clearInventory by a member, no two
\* entries of that member's inventory have the same id.
C20_InventoryIdsUnique ==
    \A g \in Guilds, m \in Members : UniqueIds(inventory(file, m, g))

----------------------------------------------------------------------------
\* Claims about removal from the catalog and the inventory

\* the list without its entry at index i
RemoveAt(seq, i) == SubSeq(seq, 1, i - 1) \o SubSeq(seq, i + 1, Len(seq))

\* C21: removeItem returns false and changes nothing when no item of the guild's
\* catalog matches the identifier; otherwise it returns true and the catalog is the
\* earlier one without the one located item (the first match), every other item
\* keeping its place, its order and its id, and nothing else in the document changed.
C21_RemoveExactlyOne ==
    last.op = "removeItem"
     => IF NoMatch(ShopOf(pre, last.g), last.item)
        THEN last.ret.tag = "false" /\ file = pre
        ELSE /\ last.ret.tag = "true"
             /\ file = [pre EXCEPT ![last.g] = [@ EXCEPT !.shop =
                            RemoveAt(@, FindIndex(ShopOf(pre, last.g), last.item))]]

\* C22: useItem with an itemID that matches an entry of the member's inventory
\* removes exactly that one entry (the first match): the inventory is the earlier one
\* without it, one entry shorter, the others in their order with their ids; the call
\* returns the stored message of the entry, and money, bank, cooldowns and history
\* of the member are unchanged.
C22_UseRemovesExactlyOne ==
    LET inv == inventory(pre, last.m, last.g)
        i == FindIndex(inv, last.item)
    IN (last.op = "useItem" /\ ~NoMatch(inv, last.item))
        => /\ last.ret.tag = "message"
           /\ last.ret.n = inv[i].message
           /\ inventory(file, last.m, last.g) = RemoveAt(inv, i)
           /\ [View(file, last.m, last.g) EXCEPT !.inventory = <<>>]
                = [View(pre, last.m, last.g) EXCEPT !.inventory = <<>>]

\* C30: when the located inventory entry carries a role, a failure of the role grant
\* (no client passed, the guild or the role not found, the assignment rejected) does
\* not prevent the mutation: useItem still removes the entry from the stored
\* inventory and returns its message.
C30_RoleFailureNotFatal ==
    LET inv == inventory(pre, last.m, last.g)
        i == FindIndex(inv, last.item)
    IN (/\ last.op = "useItem"
        /\ ~NoMatch(inv, last.item)
        /\ inv[i].role # Null
        /\ last.amount \in Clients \ {"grants"})
        => /\ last.ret.tag = "message"
           /\ last.ret.n = inv[i].message
           /\ inventory(file, last.m, last.g) = WithoutId(inv, inv[i].id)

----------------------------------------------------------------------------
\* Claims about records that may be absent

\* the methods that C29 names
SentinelOps ==
    {"removeItem", "searchItem", "buy", "useItem", "clear", "clearInventory", "clearHistory"}

\* the call addressed a guild without a record, or a member without one
AbsentRecord(doc, o) ==
    \/ ~doc[o.g].present
    \/ o.m \in Members /\ ~Member(doc, o.g, o.m).present

\* C29: removeItem, searchItem, buy, useItem, clear, clearInventory and clearHistory,
\* called with well-typed arguments for a guild or a member that has no record in
\* the document, return their sentinel or boolean result and never raise.
C29_AbsentRecordNeverRaises ==
    (last.op \in SentinelOps /\ IsString(last.m) /\ AbsentRecord(pre, last))
     => last.ret.tag # "throw"

\* C23: clearInventory sets only the member's inventory to the empty list and
\* clearHistory only the member's history: money, bank, cooldowns and the other list
\* of the member read as before, every other member, the shop and every other guild
\* are unchanged, and a member key that was present is still present.
C23_ClearOnlyNamedList ==
    LET cleared == IF last.op = "clearInventory" THEN "inventory" ELSE "history"
        before == View(pre, last.m, last.g)
        after == View(file, last.m, last.g)
    IN (last.op \in {"clearInventory", "clearHistory"} /\ IsString(last.m))
        => /\ after[cleared] = <<>>
           /\ [after EXCEPT ![cleared] = <<>>] = [before EXCEPT ![cleared] = <<>>]
           /\ \A g \in Guilds \ {last.g} : file[g] = pre[g]
           /\ \A m \in Keys \ {last.m} : Member(file, last.g, m) = Member(pre, last.g, m)
           /\ ShopOf(file, last.g) = ShopOf(pre, last.g)
           /\ file[last.g].settings = pre[last.g].settings
           /\ Member(pre, last.g, last.m).present => Member(file, last.g, last.m).present

----------------------------------------------------------------------------
\* Claims about clear and editItem

\* the member records of every guild
Records(doc) == [g \in Guilds |-> doc[g].members]

\* C24: clear(g) leaves the catalog of g empty and every member record unchanged; it
\* returns true when the catalog had items and false when it was empty or absent,
\* and in both cases it emits one shopClear event and does not raise.
C24_ClearEmptiesCatalog ==
    last.op = "clear"
     => /\ ShopOf(file, last.g) = <<>>
        /\ Records(file) = Records(pre)
        /\ last.ret.tag = IF Len(ShopOf(pre, last.g)) > 0 THEN "true" ELSE "false"
        /\ last.events = <<ShopEvent("shopClear")>>

\* a clear of a catalog with items, beside a member record, and then a clear of the
\* catalog it left empty
C24_Witness ==
    /\ last2.op = "clear" /\ last2.ret.tag = "true"
    /\ Len(ShopOf(pre2, last2.g)) = 3
    /\ Member(pre2, last2.g, "m1").present
    /\ last.op = "clear" /\ last.g = last2.g /\ last.ret.tag = "false"
    /\ last.events = <<ShopEvent("shopClear")>>

\* the fields of a catalog item that editItem accepts, with the value the host passes
Recognised == {"price", "itemName", "maxAmount"}

\* C25: editItem with a recognised field and a value changes exactly that field of
\* the first item that matches: its other fields (the id among them), the other
\* items, their order and the rest of the document are unchanged; when no item
\* matches, the document is unchanged and no event is emitted.
C25_EditOneField ==
    LET shop == ShopOf(pre, last.g)
        i == FindIndex(shop, last.item)
        after == ShopOf(file, last.g)
    IN (last.op = "editItem" /\ last.amount \in Recognised)
        => IF NoMatch(shop, last.item)
           THEN file = pre /\ last.events = <<>>
           ELSE /\ Len(after) = Len(shop)
                /\ \A j \in 1 .. Len(shop) : j # i => after[j] = shop[j]
                /\ after[i][last.amount] = EditValue(last.amount)[1]
                /\ \A f \in DOMAIN shop[i] : f # last.amount => after[i][f] = shop[i][f]
                /\ file = [pre EXCEPT ![last.g] = [@ EXCEPT !.shop = after]]
                /\ last.events = <<EarlyEvent("shopEditItem")>>

\* an edit that matches nothing, and then an edit by an id that two items carry, which
\* changes the first of them only
C25_Witness ==
    /\ last2.op = "editItem" /\ last2.amount \in Recognised
    /\ NoMatch(ShopOf(pre2, last2.g), last2.item)
    /\ last.op = "editItem" /\ last.amount = "price"
    /\ Cardinality({j \in 1 .. Len(ShopOf(pre, last.g)) :
                        Matches(ShopOf(pre, last.g)[j], last.item)}) = 2
    /\ ShopOf(file, last.g) # ShopOf(pre, last.g)

----------------------------------------------------------------------------
\* Claims about the start-up

\* C26: when the storage file is absent at construction, the empty document is
\* created and the store eventually becomes ready (so that later operations are not
\* refused as not ready), the timers of the program firing as long as they are set.
C26_AbsentFileBecomesReady == (boot.start = "absent") ~> ready.this

\* C27: when the storage file is unparseable at construction and stays so, with
\* errorHandler.attempts = N, init is called again at most N times, the store does
\* not become ready, and the loop ends with the failure reported.
C27_BoundedRetries ==
    (boot.start = "corrupt" /\ boot.changes = 0)
     => /\ boot.inits <= boot.attempts
        /\ ~ready.this
        /\ boot.loop = "done" => "failed" \in boot.log

\* C28: once the store is ready, a tick of the watcher that finds the file missing
\* leaves it recreated as the empty document, and a tick that finds unparseable
\* content signals the error: the promise the watcher rejects becomes rejected.
C28_WatcherRecreatesAndSignals ==
    /\ boot.watched = "absent" => (boot.storage = "ok" /\ file = EmptyDoc)
    /\ boot.watched = "corrupt" => boot.promise = "rejected"

----------------------------------------------------------------------------
\* Claims about guild settings, reads and cooldown stamps

\* the rewards that a reward specification can yield
RewardsOf(spec) == {RewardOf(spec, k) : k \in Draws}

\* C31: a claim uses the cooldown duration and the reward amount that the guild has
\* stored for its kind, whatever the stored value, 0 included; it uses the global
\* option only when the guild has stored none.
C31_GuildSettingsOverride ==
    \A c \in CallIds :
        calls[c].pc = "cooldown"
         => LET st == DbSettings(file, ClaimGuild)
                cf == CooldownField(calls[c].kind)
                af == AmountField(calls[c].kind)
            IN /\ calls[c].cooldown = IF st[cf] # Null THEN st[cf] ELSE options[cf]
               /\ calls[c].reward \in
                    RewardsOf(IF st[af].v # <<>> THEN st[af] ELSE options[af])

\* the reads of Economy and of Economy.shop
ReadOps == {"fetch", "bankFetch", "getDailyCooldown", "getWorkCooldown",
            "getWeeklyCooldown", "inventory", "history", "list", "searchItem", "all"}

\* C32: a read never changes the document, and for a guild or a member that has no
\* record it returns the default: 0 for the balances, null for the cooldowns, the
\* empty list for inventory, history and the shop.
C32_ReadsArePure ==
    last.op \in ReadOps
     => /\ file = pre
        /\ (last.op \in {"fetch", "bankFetch"} /\ AbsentRecord(pre, last))
            => last.ret.n = Num(0)
        /\ (last.op \in {"getDailyCooldown", "getWorkCooldown", "getWeeklyCooldown"}
              /\ AbsentRecord(pre, last)) => last.ret.n = Null
        /\ (last.op \in {"inventory", "history"} /\ AbsentRecord(pre, last))
            => last.ret.n = <<>>
        /\ (last.op = "list" /\ ~pre[last.g].present) => last.ret.n = <<>>

\* a balance read for a member without a record in a guild that has records, after
\* a read of the inventory of a guild without any
C32_Witness ==
    /\ last.op = "fetch" /\ pre[last.g].present /\ ~Member(pre, last.g, last.m).present
    /\ last.ret.n = Num(0)
    /\ last2.op = "inventory" /\ ~pre2[last2.g].present /\ last2.ret.n = <<>>

----------------------------------------------------------------------------
\* Claims about the cooldown stamps

\* the stamp of kind k as getDailyCooldown / getWorkCooldown / getWeeklyCooldown read it
Stamp(doc, g, m, k) == OrNull(Field(doc, g, m, CooldownField(k)))

\* C33: a member's cooldown stamp of a kind changes only through a successful
\* claim of that same kind by that member in that guild; every other operation,
\* and a claim that does not grant, leaves it exactly as it was.
C33_StampOnlyByGrantedClaim ==
    \A g \in Guilds, m \in Keys, k \in Kinds :
        Stamp(file, g, m, k) # Stamp(pre, g, m, k)
         => /\ Granted(last)
            /\ KindOf(last) = k
            /\ last.g = g /\ last.m = m

----------------------------------------------------------------------------
\* Range rewards: Economy.work with options.workAmount = [min, max]

\* ranges whose integers are no more than the draws the model distinguishes
SmallRanges == {Range(a, b) : a \in 1 .. 3, b \in 1 .. 3} \ {Range(3, 1)}

InitRange ==
    /\ file \in StoredDocs
    /\ \E w \in SmallRanges :
          LET o == [HostUnset EXCEPT !.workCooldown = Num(1), !.workAmount = w]
          IN options = InitOptions(o) /\ boot = StartedWith(o)
    /\ backend = "json"
    /\ ready = Ready
    /\ now = 1
    /\ last = NoOp /\ last2 = NoOp
    /\ pre = file /\ pre2 = file
    /\ nops = 0
    /\ calls = [c \in CallIds |-> IdleCall]
    /\ tasks = <<>>
    /\ grants = NoGrants
    /\ peer = NoPeer

NextRange ==
    \/ DoWork
    \/ Tick

SpecRange == InitRange /\ [][NextRange]_vars

\* C34: a work claim granted under a range [min, max], min <= max, returns an
\* integer of min .. max, and every integer of min .. max, both ends included, is
\* the reward of some draw in [0, 1).
C34_RangeRewardCoversInterval ==
    (last.op = "work" /\ Granted(last) /\ options.workAmount.array)
     => LET min == options.workAmount.v[1]
            max == options.workAmount.v[2]
        IN /\ last.ret.n \in min .. max
           /\ (max - min < RandDen
                => \A r \in min .. max : \E k \in Draws : WorkReward(options.workAmount, k) = r)

----------------------------------------------------------------------------
\* The remaining time of a refused claim: RewardManager with cooldowns around the
\* unit boundaries of parse

StampedMember == [RichMember EXCEPT !.workCooldown = Num(1), !.weeklyCooldown = Num(1)]

Cooldowns(d, w, k) ==
    [HostShort EXCEPT !.dailyCooldown = Num(d), !.workCooldown = Num(w), !.weeklyCooldown = Num(k)]

LongOptions ==
    {Cooldowns(1, 999, 1000), Cooldowns(1001, 59999, 60000),
     Cooldowns(60001, 3599999, 3600000), Cooldowns(3600001, 86399999, 86400000),
     Cooldowns(86400001, 90061001, 176461002)}

InitRemaining ==
    /\ file = DocWith("g1", "m1", StampedMember)
    /\ \E o \in LongOptions : options = o /\ boot = StartedWith(o)
    /\ backend = "mongo"
    /\ ready = Ready
    /\ now = 1
    /\ last = NoOp /\ last2 = NoOp
    /\ pre = file /\ pre2 = file
    /\ nops = 0
    /\ calls = [c \in CallIds |-> IdleCall]
    /\ tasks = <<>>
    /\ grants = [m \in Members |-> [k \in Kinds |-> IF m = "m1" THEN 1 ELSE 0]]
    /\ peer = NoPeer

NextRemaining ==
    \/ Tick
    \/ \E c \in CallIds : StartClaim(c)
    \/ \E c \in CallIds : ReadSettings(c)
    \/ \E c \in CallIds : Decide(c)
    \/ AddRead
    \/ AddWrite
    \/ StampWrite

SpecRemaining == InitRemaining /\ [][NextRemaining]_vars

\* C35: a not-claimable outcome of RewardManager has status false, no reward, and
\* a time decomposition of the remaining milliseconds R > 0 with hours < 24,
\* minutes < 60, seconds < 60, milliseconds < 1000, all parts >= 0, that adds up to R.
C35_RemainingTimeDecomposes ==
    (last.op \in ManagerClaims /\ last.ret.tag = "false")
     => LET R == last.ret.n
            time == last.time
        IN /\ R > 0
           /\ time.days >= 0
           /\ time.hours \in 0 .. 23
           /\ time.minutes \in 0 .. 59
           /\ time.seconds \in 0 .. 59
           /\ time.milliseconds \in 0 .. 999
           /\ time.days * 86400000 + time.hours * 3600000 + time.minutes * 60000
                + time.seconds * 1000 + time.milliseconds = R

\* a refusal with more than a day left, every part of the decomposition non-zero
C35_Witness ==
    /\ last.op \in ManagerClaims /\ last.ret.tag = "false"
    /\ last.time.days >= 1 /\ last.time.hours >= 1 /\ last.time.minutes >= 1
    /\ last.time.seconds >= 1 /\ last.time.milliseconds >= 1

----------------------------------------------------------------------------
\* Claims about the order of write and notification

BalanceEvents == {"balanceSet", "balanceAdd", "balanceSubtract"}

\* C36: every event of a mutating operation is emitted after the write of that
\* operation has completed, and a balance event carries the balance that was just
\* persisted for the member.
C36_EmitAfterWrite ==
    \A i \in 1 .. Len(last.events) :
        /\ last.events[i].written
        /\ last.events[i].type \in BalanceEvents
            => last.events[i].balance = Field(file, last.g, last.m, "money")

----------------------------------------------------------------------------
\* Claims about the purchase history

\* C37: the purchase history of a member is append-only: clearHistory aside, every
\* operation leaves the entries as they were, in order, and a successful buy adds
\* exactly one entry at the end, whose id is the previous length + 1.
C37_HistoryAppendOnly ==
    \A g \in Guilds, m \in Keys :
        LET old == history(pre, m, g)
            new == history(file, m, g)
            mine == last.g = g /\ last.m = m
        IN \/ last.op = "clearHistory" /\ mine
           \/ /\ last.op = "buy" /\ last.ret.tag = "true" /\ mine
              /\ Len(new) = Len(old) + 1
              /\ SubSeq(new, 1, Len(old)) = old
              /\ new[Len(new)].id = Len(old) + 1
           \/ /\ ~(last.op = "buy" /\ last.ret.tag = "true" /\ mine)
              /\ new = old

\* a purchase by a member that already had an entry
C37_Witness ==
    /\ last.op = "buy" /\ last.ret.tag = "true"
    /\ Len(history(pre, last.m, last.g)) >= 1
    /\ Len(history(file, last.m, last.g)) = Len(history(pre, last.m, last.g)) + 1

----------------------------------------------------------------------------
\* Item lookup with identifiers that read as an id and as a name

\* the identifier n: x.id == n and x.itemName == n compare loosely, so it finds the
\* item with id n and the item named by the numeral of n
Numeral(n) == [id |-> n, name |-> ToString(n)]

LookupIDs == {ById(1), ByName("sword"), Numeral(1), Numeral(2)}

\* shop.addItem of an item named "2", then of a sword
NumeralCatalog ==
    addItem(addItem(EmptyDoc, "g1", "2", 2, Null, 1).doc, "g1", "sword", 2, Null, 1).doc["g1"].shop

InitLookup ==
    /\ file \in {EmptyDoc, WithShop(EmptyDoc, "g1", NumeralCatalog),
                 WithShop(EmptyDoc, "g1", Catalog)}
    /\ options = DefaultOptions
    /\ backend = "json"
    /\ ready = Ready
    /\ now = 1
    /\ last = NoOp /\ last2 = NoOp
    /\ pre = file /\ pre2 = file
    /\ nops = 0
    /\ calls = [c \in CallIds |-> IdleCall]
    /\ tasks = <<>>
    /\ grants = NoGrants
    /\ boot = Started
    /\ peer = NoPeer

DoAddNumeral == \E g \in Guilds, name \in {"2", "sword"} :
    Sync("addItem", g, "", 2, ByName(name), addItem(file, g, name, 2, Null, now)) /\ LedgerFrame

DoLookup == \E itemID \in LookupIDs, g \in Guilds :
    Sync("searchItem", g, "", 0, itemID, searchCall(file, itemID, g)) /\ LedgerFrame

DoRemoveLookup == \E itemID \in LookupIDs, g \in Guilds :
    Sync("removeItem", g, "", 0, itemID, removeItem(file, itemID, g)) /\ LedgerFrame

NextLookup ==
    \/ DoAddNumeral
    \/ DoLookup
    \/ DoRemoveLookup

SpecLookup == InitLookup /\ [][NextLookup]_vars

HasId(shop, n) == \E i \in 1 .. Len(shop) : shop[i].id = n

\* C38: when the identifier of a lookup equals the id of an item of the shop, that
\* item is the one located, whatever the names of the items before it: searchItem
\* returns it and removeItem removes it.
C38_IdsBeforeNames ==
    (last.op \in {"searchItem", "removeItem"} /\ HasId(ShopOf(pre, last.g), last.item.id))
     => /\ last.op = "searchItem" => last.ret.tag = "item" /\ last.ret.n = last.item.id
        /\ last.op = "removeItem" => ~HasId(ShopOf(file, last.g), last.item.id)

----------------------------------------------------------------------------
\* The options after initialization: new Economy(o) for several o

ConfigHosts ==
    {HostUnset, HostShort, [HostShort EXCEPT !.dailyCooldown = Null],
     [HostUnset EXCEPT !.workAmount = Fixed(4), !.weeklyCooldown = Num(2)]}

InitConfig ==
    /\ file \in StoredDocs
    /\ \E o \in ConfigHosts : options = InitOptions(o) /\ boot = StartedWith(o)
    /\ backend = "json"
    /\ ready = Ready
    /\ now = 1
    /\ last = NoOp /\ last2 = NoOp
    /\ pre = file /\ pre2 = file
    /\ nops = 0
    /\ calls = [c \in CallIds |-> IdleCall]
    /\ tasks = <<>>
    /\ grants = NoGrants
    /\ peer = NoPeer

NextConfig ==
    \/ DoDaily
    \/ DoWork
    \/ DoWeekly
    \/ Tick

SpecConfig == InitConfig /\ [][NextConfig]_vars

OptionFields == {"dailyCooldown", "workCooldown", "weeklyCooldown",
                 "dailyAmount", "workAmount", "weeklyAmount"}

\* the host gave the option f a value
Configured(o, f) ==
    IF f \in {"dailyAmount", "workAmount", "weeklyAmount"} THEN ~IsUnset(o[f]) ELSE o[f] # Null

\* C39: after initialization every reward amount and cooldown the host configured
\* has the configured value and every other one its default; a granted work claim
\* pays a reward drawn from the configured workAmount, whatever dailyCooldown is.
C39_InitKeepsConfiguration ==
    /\ \A f \in OptionFields :
          options[f] = IF Configured(boot.host, f) THEN boot.host[f] ELSE DefaultOptions[f]
    /\ (last.op = "work" /\ Granted(last) /\ Configured(boot.host, "workAmount"))
        => last.ret.n \in {WorkReward(boot.host.workAmount, k) : k \in Draws}

----------------------------------------------------------------------------
\* Two instances in one process: first = new Economy({storagePath: a}), then
\* second = new Economy({storagePath: b}). file is the document at a, peer.doc the
\* document at b. init of the second instance has set module.exports.options to
\* its options (line 827), and the shop methods of both instances read
\* module.exports.options.storagePath.

\* the document at a as a method of the first instance sees it: its own file, with
\* the inventory and history that this.shop.inventory and this.shop.history return
Through(own, shared, m, g) ==
    [own EXCEPT ![g].members[m].inventory = inventory(shared, m, g),
                ![g].members[m].history = history(shared, m, g)]

\* a balance operation of the first instance writes this.options.storagePath
OnOwn(own, res) == IF res.ret.tag = "throw" THEN [res EXCEPT !.doc = own] ELSE res

Called(who, doc) == [doc |-> doc, pre |-> peer.doc, caller |-> who]

PeerFrame == UNCHANGED <<options, backend, ready, now, calls, tasks, grants, boot>>

InitPeers ==
    /\ file \in {EmptyDoc, DocWith("g1", "m1", RichMember)}
    /\ \E d \in {EmptyDoc, WithShop(DocWith("g1", "m1", TwoItemMember), "g1", Catalog)} :
          peer = [doc |-> d, pre |-> d, caller |-> "none"]
    /\ options = DefaultOptions
    /\ backend = "json"
    /\ ready = Ready
    /\ now = 1
    /\ last = NoOp /\ last2 = NoOp
    /\ pre = file /\ pre2 = file
    /\ nops = 0
    /\ calls = [c \in CallIds |-> IdleCall]
    /\ tasks = <<>>
    /\ grants = NoGrants
    /\ boot = Started

\* first.set(amount, memberID, guildID)
DoSetOnFirst == \E a \in Amounts, m \in Members, g \in Guilds :
    /\ Sync("set", g, m, a, 0, OnOwn(file, set(Through(file, peer.doc, m, g), a, m, g)))
    /\ peer' = Called("first", peer.doc)
    /\ PeerFrame

\* second.set(amount, memberID, guildID)
DoSetOnSecond == \E a \in Amounts, m \in Members, g \in Guilds :
    /\ Counted
    /\ LET r == set(peer.doc, a, m, g)
       IN /\ peer' = Called("second", r.doc)
          /\ Record2(Op("set", g, m, a, 0, now, r))
    /\ UNCHANGED file
    /\ PeerFrame

\* first.shop.addItem(guildID, {itemName, price}) and second.shop.addItem(...)
DoAddItemOn == \E who \in {"first", "second"}, g \in Guilds, name \in ItemNames :
    /\ Counted
    /\ LET r == addItem(peer.doc, g, name, 2, Null, now)
       IN /\ peer' = Called(who, r.doc)
          /\ Record2(Op("addItem", g, "", 2, ByName(name), now, r))
    /\ UNCHANGED file
    /\ PeerFrame

\* first.shop.buy(itemID, memberID, guildID) and second.shop.buy(...)
DoBuyOn == \E who \in {"first", "second"}, itemID \in {ById(1), ById(2)}, m \in Members,
              g \in Guilds :
    /\ Counted
    /\ LET r == buy(peer.doc, itemID, m, g, now)
       IN /\ peer' = Called(who, r.doc)
          /\ Record2(Op("buy", g, m, 0, itemID, now, r))
    /\ UNCHANGED file
    /\ PeerFrame

NextPeers ==
    \/ DoSetOnFirst
    \/ DoSetOnSecond
    \/ DoAddItemOn
    \/ DoBuyOn

SpecPeers == InitPeers /\ [][NextPeers]_vars

\* C40: with two instances on different storage paths, an operation of one
\* instance leaves the document of the other as it was, shop operations included,
\* and the inventory and history a balance operation writes back are those of the
\* instance's own document.
C40_InstancesIsolated ==
    /\ peer.caller = "first" => peer.doc = peer.pre
    /\ peer.caller = "second" => file = pre
    /\ (peer.caller = "first" /\ last.op \in MoneyOps /\ last.ret.tag # "throw")
        => /\ inventory(file, last.m, last.g) = inventory(pre, last.m, last.g)
           /\ history(file, last.m, last.g) = history(pre, last.m, last.g)

====
